---- MODULE Spec2Model ----
(***************************************************************************)
(* Multi-platform social media posting API (FastAPI application main.py    *)
(* and the six platform adapters under platforms/).                        *)
(*                                                                         *)
(* The state is the six process-wide adapter objects (platform_posters),   *)
(* the process environment they read with os.getenv, and the requests in   *)
(* flight.  A request handler is a coroutine: it runs without interruption *)
(* from one network wait (an awaited aiohttp call) to the next.  Each      *)
(* action below is one such uninterrupted run.                             *)
(*                                                                         *)
(* Conventions: Python's None and the empty string are both falsy and are  *)
(* both written "" here; a media list of None and of [] are both <<>>.     *)
(* A provider's response is its HTTP status code; a response with a        *)
(* success status carries a well-formed body.  A network error behaves as  *)
(* a refusal status (both raise inside the adapter's try block).           *)
(***************************************************************************)
EXTENDS Integers, Sequences, FiniteSets, TLC

VARIABLES
    ad,     \* platform_posters: platform id -> adapter object (main.py:59-66)
    env,    \* the process environment: variable name -> value ("" when unset)
    rq      \* the requests in flight: handler coroutine state, per request slot

vars == <<ad, env, rq>>

-----------------------------------------------------------------------------
(* Bounds of the model *)

\* length of the platforms list of a POST /api/post body
MaxBatch == 2

\* length of the first line of the texts whose title is extracted
MaxLine == 102

-----------------------------------------------------------------------------
(* Program constants *)

\* HTTP status of a handler that returned normally
HTTP_OK == 200

\* HTTPException(status_code=400): platform not supported
HTTP_BAD_REQUEST == 400

\* HTTPException(status_code=401): authentication failed
HTTP_UNAUTHORIZED == 401

\* request validation error raised by the framework before the handler runs
HTTP_UNPROCESSABLE == 422

\* media_urls[:4] in XPoster.create_post
XMaxMedia == 4

\* lines[0][:100] in YouTubePoster.create_post
TitleMax == 100

\* platform_posters keys, in insertion order
Supported == <<"facebook", "instagram", "tiktok", "x", "threads", "youtube">>

SupportedSet == {Supported[n] : n \in 1..Len(Supported)}

\* an id with no registered adapter
Unsupported == {"bogus"}

PlatformIds == SupportedSet \cup Unsupported

\* status codes a provider (or a media host) may answer with
StatusCodes == {200, 201, 202, 204, 400}

-----------------------------------------------------------------------------
(* Environment *)

EnvNames ==
    {"FACEBOOK_ACCESS_TOKEN", "FACEBOOK_PAGE_ID",
     "INSTAGRAM_ACCESS_TOKEN", "INSTAGRAM_ACCOUNT_ID",
     "TIKTOK_ACCESS_TOKEN", "TIKTOK_CLIENT_KEY", "TIKTOK_CLIENT_SECRET",
     "X_ACCESS_TOKEN", "X_ACCESS_TOKEN_SECRET", "X_API_KEY", "X_API_SECRET",
     "X_BEARER_TOKEN",
     "THREADS_ACCESS_TOKEN", "THREADS_USER_ID",
     "YOUTUBE_ACCESS_TOKEN", "YOUTUBE_API_KEY"}

\* the value a variable has when it is set
EnvValue(name) ==
    CASE name \in {"FACEBOOK_ACCESS_TOKEN", "INSTAGRAM_ACCESS_TOKEN",
                   "TIKTOK_ACCESS_TOKEN", "X_ACCESS_TOKEN",
                   "THREADS_ACCESS_TOKEN", "YOUTUBE_ACCESS_TOKEN"} -> "env_tok"
      [] name \in {"FACEBOOK_PAGE_ID", "INSTAGRAM_ACCOUNT_ID",
                   "THREADS_USER_ID"} -> "env_id"
      [] name = "X_ACCESS_TOKEN_SECRET" -> "env_secret"
      [] name = "X_BEARER_TOKEN" -> "env_bearer"
      [] name \in {"TIKTOK_CLIENT_KEY", "X_API_KEY", "YOUTUBE_API_KEY"} -> "env_key"
      [] OTHER -> "env_ksec"

TokenVars ==
    {"FACEBOOK_ACCESS_TOKEN", "INSTAGRAM_ACCESS_TOKEN", "TIKTOK_ACCESS_TOKEN",
     "X_ACCESS_TOKEN", "THREADS_ACCESS_TOKEN", "YOUTUBE_ACCESS_TOKEN"}

\* the sets of variables that are set, one per deployment considered
EnvProfiles ==
    { EnvNames,                                      \* everything configured
      {},                                            \* nothing configured
      TokenVars,                                     \* access tokens only
      EnvNames \ {"X_BEARER_TOKEN"},                 \* X by OAuth 1.0a pair
      EnvNames \ TokenVars }                         \* ids, keys and bearer only

EnvOf(set) == [name \in EnvNames |-> IF name \in set THEN EnvValue(name) ELSE ""]

\* os.getenv(name) under environment e
getenv(e, name) == e[name]

\* Python's `a or b` on optional strings
Or(a, b) == IF a # "" THEN a ELSE b

\* f'{platform_name.upper()}_ACCESS_TOKEN' as each authenticate spells it out
TokenVar(plat) ==
    CASE plat = "facebook" -> "FACEBOOK_ACCESS_TOKEN"
      [] plat = "instagram" -> "INSTAGRAM_ACCESS_TOKEN"
      [] plat = "tiktok" -> "TIKTOK_ACCESS_TOKEN"
      [] plat = "x" -> "X_ACCESS_TOKEN"
      [] plat = "threads" -> "THREADS_ACCESS_TOKEN"
      [] OTHER -> "YOUTUBE_ACCESS_TOKEN"

\* the variable holding the page / account / user id of the adapters that have one
AccountVar(plat) ==
    CASE plat = "facebook" -> "FACEBOOK_PAGE_ID"
      [] plat = "instagram" -> "INSTAGRAM_ACCOUNT_ID"
      [] OTHER -> "THREADS_USER_ID"

HasAccount == {"facebook", "instagram", "threads"}

-----------------------------------------------------------------------------
(* Adapters *)

\* BasePoster.__init__
BasePoster ==
    [access_token |-> "", api_key |-> "", api_secret |-> "",
     authenticated |-> FALSE,
     account |-> "", bearer_token |-> "", access_token_secret |-> ""]

\* the constructors FacebookPoster() .. YouTubePoster()
NewPoster(e, plat) ==
    CASE plat \in HasAccount ->
           [BasePoster EXCEPT !.account = getenv(e, AccountVar(plat))]
      [] plat = "tiktok" ->
           [BasePoster EXCEPT !.api_key = getenv(e, "TIKTOK_CLIENT_KEY"),
                              !.api_secret = getenv(e, "TIKTOK_CLIENT_SECRET")]
      [] plat = "x" ->
           [BasePoster EXCEPT !.api_key = getenv(e, "X_API_KEY"),
                              !.api_secret = getenv(e, "X_API_SECRET"),
                              !.bearer_token = getenv(e, "X_BEARER_TOKEN")]
      [] OTHER ->
           [BasePoster EXCEPT !.api_key = getenv(e, "YOUTUBE_API_KEY")]

\* a request field, or an additional_params key, that the request does not give
Absent == "<absent>"

\* authenticate() called by create_post: every argument defaulted to None
NoArgs == [access_token |-> "", api_key |-> "", api_secret |-> "", id |-> Absent]

-----------------------------------------------------------------------------
(* authenticate: the assignments made before the verification request *)

\* [mutant of AuthToken] a token stored earlier is preferred to the environment
AuthTokenKeepsStored(a, e, plat, args) ==
    Or(args.access_token, Or(a.access_token, getenv(e, TokenVar(plat))))

\* [mutant of AuthToken] the environment is not consulted
AuthTokenExplicitOnly(a, e, plat, args) == args.access_token

\* self.access_token = access_token or os.getenv('<PLATFORM>_ACCESS_TOKEN')
AuthToken(a, e, plat, args) == Or(args.access_token, getenv(e, TokenVar(plat)))

\* page_id / instagram_account_id / threads_user_id: the additional_params
\* value when the key is present, else the stored value or the environment's
AuthAccount(a, e, plat, args) ==
    IF plat \notin HasAccount THEN a.account
    ELSE IF args.id # Absent THEN args.id
    ELSE Or(a.account, getenv(e, AccountVar(plat)))

\* the adapter after the assignments at the top of authenticate's try block
AuthStore(a, e, plat, args) ==
    LET b == [a EXCEPT !.access_token = AuthToken(a, e, plat, args),
                       !.account = AuthAccount(a, e, plat, args)]
    IN  CASE plat \in {"tiktok", "x"} ->
               LET c == [b EXCEPT !.api_key = Or(args.api_key, a.api_key),
                                  !.api_secret = Or(args.api_secret, a.api_secret)]
               IN  IF plat = "tiktok" THEN c
                   ELSE [c EXCEPT
                           !.access_token_secret = getenv(e, "X_ACCESS_TOKEN_SECRET"),
                           !.bearer_token = Or(a.bearer_token, getenv(e, "X_BEARER_TOKEN"))]
          [] plat = "youtube" ->
               [b EXCEPT !.api_key = Or(args.api_key, a.api_key)]
          [] OTHER -> b

\* the `if not ...: raise Exception("... required")` test of each authenticate
MissingCredentials(a, plat) ==
    CASE plat \in {"instagram", "threads"} -> a.access_token = "" \/ a.account = ""
      [] plat = "x" ->
           a.bearer_token = "" /\ ~(a.access_token # "" /\ a.access_token_secret # "")
      [] OTHER -> a.access_token = ""

\* the credential the verification request carries: the access token (query
\* parameter or Bearer header); for X the bearer token, or no Authorization
\* header at all when there is none
VerifyCredential(a, plat) ==
    IF plat = "x" THEN a.bearer_token ELSE a.access_token

\* the verification response that makes authenticate set self.authenticated:
\* status 200 (and, for YouTube, a channel in result['items'])
VerifyAccepted(plat, resp) ==
    /\ resp.status = 200
    /\ plat = "youtube" => resp.items

\* self.authenticated = True
MarkAuthenticated(a) == [a EXCEPT !.authenticated = TRUE]

\* [mutant of MarkUnauthenticated] the except block leaves the flag as it is
LeaveFlag(a) == a

\* [mutant of MarkUnauthenticated] the except block also forgets the token
\* that failed
ForgetToken(a) == [a EXCEPT !.authenticated = FALSE, !.access_token = ""]

\* except Exception: self.authenticated = False
MarkUnauthenticated(a) == [a EXCEPT !.authenticated = FALSE]

-----------------------------------------------------------------------------
(* Responses of the providers and of the media hosts *)

\* result.get('id') of a container creation response
ContainerIds == {"c1", "c2"}

\* the 'id' of a response whose id the adapter does not pass on
NoId == ""

\* the steps whose response carries an id that a later step of the sequence
\* refers to: the container of Instagram and Threads (result.get('id')), the
\* upload of TikTok (data.upload_url, data.publish_id) and the media of X
\* (media_id_string)
IdSteps == {"container", "init", "INIT"}

\* what an awaited call may be answered with
Responses(plat, op) ==
    {[status |-> s, items |-> TRUE, id |-> id] :
        s \in StatusCodes,
        id \in IF op \in IdSteps THEN ContainerIds ELSE {NoId}}
      \cup (IF plat = "youtube" /\ op = "verify"
            THEN {[status |-> 200, items |-> FALSE, id |-> NoId]} ELSE {})

-----------------------------------------------------------------------------
(* create_post: the publish sequence of each adapter *)

\* str.lower(), over the URLs considered
Lower(url) == IF url = "V.MOV" THEN "v.mov" ELSE url

\* the part of a URL from its last dot on ("" when it has none)
Extension(url) ==
    CASE url = "v.mp4" -> ".mp4"
      [] url = "v.mov" -> ".mov"
      [] url = "V.MOV" -> ".MOV"
      [] url \in {"a.jpg", "b.jpg", "c.jpg", "d.jpg", "e.jpg"} -> ".jpg"
      [] OTHER -> ""

\* media_url.lower().endswith(('.mp4', '.mov', '.avi'))
IsVideo(url) == Extension(Lower(url)) \in {".mp4", ".mov", ".avi"}

\* int(schedule_time) does not raise
IsNumeric(s) == s \in {"1700000000"}

Min(m, n) == IF m < n THEN m ELSE n

Call(op, k) == [act |-> "call", op |-> op, k |-> k, err |-> ""]
Fail(err) == [act |-> "fail", op |-> "", k |-> 0, err |-> err]
Done == [act |-> "ok", op |-> "", k |-> 0, err |-> ""]

\* [mutant of FirstStep] YouTube refuses a first URL that is not a video
FirstStepChecksVideo(plat, media) ==
    CASE plat = "facebook" -> Call("feed", 0)
      [] plat = "instagram" ->
           IF media = <<>> THEN Fail("no_media") ELSE Call("container", 0)
      [] plat = "threads" -> Call("container", 0)
      [] plat = "tiktok" ->
           IF media = <<>> THEN Fail("no_media") ELSE Call("init", 0)
      [] plat = "x" ->
           IF media # <<>> THEN Call("download", 1) ELSE Call("tweet", 0)
      [] OTHER ->
           IF media = <<>> THEN Fail("no_media")
           ELSE IF ~IsVideo(media[1]) THEN Fail("no_video")
           ELSE Call("download", 0)

\* what create_post does once the adapter is authenticated, up to its first
\* network wait
FirstStep(plat, media) ==
    CASE plat = "facebook" -> Call("feed", 0)
      [] plat = "instagram" ->
           IF media = <<>> THEN Fail("no_media") ELSE Call("container", 0)
      [] plat = "threads" -> Call("container", 0)
      [] plat = "tiktok" ->
           IF media = <<>> THEN Fail("no_media") ELSE Call("init", 0)
      [] plat = "x" ->
           IF media # <<>> THEN Call("download", 1) ELSE Call("tweet", 0)
      [] OTHER ->
           IF media = <<>> THEN Fail("no_media") ELSE Call("download", 0)

\* what create_post does when the call (op, k) is answered with `status`, up to
\* its next network wait
NextStep(plat, op, k, status, media, sched) ==
    LET ok2 == status \in {200, 201}
    IN  CASE plat = "facebook" -> IF ok2 THEN Done ELSE Fail("provider")
          [] plat \in {"instagram", "threads"} ->
               IF ~ok2 THEN Fail("provider")
               ELSE IF op = "container" THEN Call("publish", 0) ELSE Done
          [] plat = "tiktok" ->
               CASE op = "init" -> IF ok2 THEN Call("download", 0) ELSE Fail("provider")
                 [] op = "download" ->
                      IF status = 200 THEN Call("put", 0) ELSE Fail("media_fetch")
                 [] op = "put" ->
                      \* _upload_video returns a bool that create_post drops;
                      \* _publish_video then evaluates int(schedule_time)
                      IF sched # "" /\ ~IsNumeric(sched) THEN Fail("bad_schedule")
                      ELSE Call("publish", 0)
                 [] OTHER -> IF ok2 THEN Done ELSE Fail("provider")
          [] plat = "x" ->
               CASE op = "download" ->
                      IF status = 200 THEN Call("INIT", k) ELSE Fail("media_fetch")
                 [] op = "INIT" ->
                      IF status \in {200, 201, 202} THEN Call("APPEND", k)
                      ELSE Fail("provider")
                 [] op = "APPEND" ->
                      IF status \in {200, 201, 204} THEN Call("FINALIZE", k)
                      ELSE Fail("provider")
                 [] op = "FINALIZE" ->
                      IF ~ok2 THEN Fail("provider")
                      ELSE IF k < Min(XMaxMedia, Len(media)) THEN Call("download", k + 1)
                      ELSE Call("tweet", 0)
                 [] OTHER -> IF ok2 THEN Done ELSE Fail("provider")
          [] OTHER ->
               CASE op = "download" ->
                      IF status = 200 THEN Call("initiate", 0) ELSE Fail("media_fetch")
                 [] op = "initiate" -> IF ok2 THEN Call("complete", 0) ELSE Fail("provider")
                 [] OTHER -> IF ok2 THEN Done ELSE Fail("provider")

\* a schedule value as a request carries it: none, a string, or the integer
\* that int() made of a decimal string
NoSchedule == [type |-> "none", text |-> ""]
AsStr(s) == [type |-> "str", text |-> s]
AsInt(s) == [type |-> "int", text |-> s]

\* the fields of the data / json of a call that depend on the post; a key that
\* the request does not carry is "" (<<>> for attached_media)
NoData ==
    [link |-> "", attached_media |-> <<>>, media_type |-> "", image_url |-> "",
     video_url |-> "", schedule |-> NoSchedule, creation_id |-> "",
     url |-> "", publish_id |-> "", media_id |-> "", media_ids |-> <<>>,
     published |-> "", post_mode |-> "", privacy |-> ""]

\* upload_data of TikTokPoster.create_post: the upload_url and the publish_id
\* of the response to the upload initialization
NoUpload == [upload_url |-> "", publish_id |-> ""]

UploadData(resp) ==
    [upload_url |-> "upload_url:" \o resp.id, publish_id |-> "publish_id:" \o resp.id]

\* [mutant of FacebookPostData] the first URL is always attached as link
FacebookPostDataFirstLink(media, sched) ==
    [NoData EXCEPT
       !.link = IF media # <<>> THEN media[1] ELSE "",
       !.schedule = IF sched # "" THEN AsStr(sched) ELSE NoSchedule]

\* post_data of FacebookPoster.create_post
FacebookPostData(media, sched) ==
    [NoData EXCEPT
       !.link = IF Len(media) = 1 THEN media[1] ELSE "",
       !.attached_media = IF Len(media) > 1 THEN media ELSE <<>>,
       !.published = IF sched # "" THEN "false" ELSE "",
       !.schedule = IF sched # "" THEN AsStr(sched) ELSE NoSchedule]

\* [mutant of InstagramContainerData] the suffix is compared as written
InstagramContainerDataCaseSensitive(media) ==
    IF Extension(media[1]) \in {".mp4", ".mov", ".avi"}
    THEN [NoData EXCEPT !.media_type = "VIDEO", !.video_url = media[1]]
    ELSE [NoData EXCEPT !.image_url = media[1]]

\* data of InstagramPoster._create_media_container(caption, media_urls[0])
InstagramContainerData(media) ==
    IF IsVideo(media[1])
    THEN [NoData EXCEPT !.media_type = "VIDEO", !.video_url = media[1]]
    ELSE [NoData EXCEPT !.image_url = media[1]]

\* data of ThreadsPoster._create_media_container(text, media_urls)
ThreadsContainerData(media) ==
    IF media = <<>> THEN [NoData EXCEPT !.media_type = "TEXT"]
    ELSE IF IsVideo(media[1])
    THEN [NoData EXCEPT !.media_type = "VIDEO", !.video_url = media[1]]
    ELSE [NoData EXCEPT !.media_type = "IMAGE", !.image_url = media[1]]

\* post_data of TikTokPoster._publish_video
TikTokPostData(publish_id, sched) ==
    [NoData EXCEPT
       !.publish_id = publish_id,
       !.post_mode = IF sched # "" THEN "SCHEDULED" ELSE "",
       !.schedule = IF sched # "" THEN AsInt(sched) ELSE NoSchedule]

\* tweet_data of XPoster.create_post: media.media_ids when there are any
XTweetData(media_ids) == [NoData EXCEPT !.media_ids = media_ids]

\* metadata of YouTubePoster._upload_video: status.privacyStatus, status.publishAt
YouTubeMetadata(sched) ==
    [NoData EXCEPT
       !.privacy = IF sched # "" THEN "private" ELSE "public",
       !.schedule = IF sched # "" THEN AsStr(sched) ELSE NoSchedule]

\* the data of the k-th call op that create_post issues for request r
CallData(r, plat, op, k) ==
    CASE plat = "facebook" /\ op = "feed" -> FacebookPostData(r.media, r.sched)
      [] plat = "instagram" /\ op = "container" -> InstagramContainerData(r.media)
      [] plat = "threads" /\ op = "container" -> ThreadsContainerData(r.media)
      [] plat \in {"instagram", "threads"} /\ op = "publish" ->
           [NoData EXCEPT !.creation_id = r.container_id]
      [] plat = "tiktok" /\ op = "download" -> [NoData EXCEPT !.url = r.media[1]]
      [] plat = "tiktok" /\ op = "put" ->
           [NoData EXCEPT !.url = r.upload_data.upload_url]
      [] plat = "tiktok" /\ op = "publish" ->
           TikTokPostData(r.upload_data.publish_id, r.sched)
      [] plat = "x" /\ op = "download" -> [NoData EXCEPT !.url = r.media[k]]
      [] plat = "x" /\ op \in {"APPEND", "FINALIZE"} ->
           [NoData EXCEPT !.media_id = r.media_id]
      [] plat = "x" /\ op = "tweet" -> XTweetData(r.media_ids)
      [] plat = "youtube" /\ op = "download" -> [NoData EXCEPT !.url = r.media[1]]
      [] plat = "youtube" /\ op = "initiate" -> YouTubeMetadata(r.sched)
      [] OTHER -> NoData

\* the credential a publish-sequence call carries, read from the adapter when
\* the call is issued
CallCredential(a, plat, op) ==
    CASE op \in {"download", "put", "complete"} -> ""
      [] plat = "x" /\ op = "tweet" -> Or(a.bearer_token, a.access_token)
      [] plat = "x" -> a.bearer_token
      [] OTHER -> a.access_token

-----------------------------------------------------------------------------
(* Handler coroutines *)

\* a request slot with no request in it
Idle ==
    [kind |-> "none", pc |-> "idle", platforms |-> <<>>, i |-> 0,
     text |-> "", media |-> <<>>, sched |-> "", args |-> NoArgs,
     op |-> "", k |-> 0, results |-> <<>>, status |-> 0, detail |-> "", log |-> <<>>,
     given |-> {}, container_id |-> "",
     upload_data |-> NoUpload, media_id |-> "", media_ids |-> <<>>]

\* a request as it arrives: the handler has not started
Fresh(kind, given, platforms, text, media, sched, args) ==
    [Idle EXCEPT !.kind = kind, !.pc = "run", !.given = given,
                 !.platforms = platforms, !.i = 1,
                 !.text = text, !.media = media, !.sched = sched, !.args = args]

\* an entry of the history of a request: an adapter method entered
\* (create_post, authenticate), an outbound call issued (call), the end of
\* authenticate (auth_end) and of create_post (returned, raised)
E0 ==
    [ev |-> "", pos |-> 0, plat |-> "", op |-> "", k |-> 0, cred |-> "",
     arg |-> "", prev |-> "", status |-> 0, was |-> FALSE, now |-> FALSE,
     data |-> NoData]

Plat(r) == r.platforms[r.i]

Here(m, ev) == [E0 EXCEPT !.ev = ev, !.pos = m.r.i, !.plat = Plat(m.r)]

Log(m, e) == [m EXCEPT !.r.log = Append(@, e)]

\* PostResponse(success, platform, post_id, message, error)
PostResponse(success, platform, message, error) ==
    [success |-> success, platform |-> platform,
     post_id |-> IF success THEN "id" ELSE "", message |-> message, error |-> error]

\* the handler returns (or raises HTTPException) with this status
Finish(m, status, detail) ==
    [m EXCEPT !.r.pc = "done", !.r.status = status, !.r.detail = detail,
              !.r.op = "", !.r.k = 0]

\* the coroutine issues the call (op, k) of the publish sequence and waits
Issue(m, op, k) ==
    LET plat == Plat(m.r)
        e == [Here(m, "call") EXCEPT !.op = op, !.k = k,
                                     !.cred = CallCredential(m.ad[plat], plat, op),
                                     !.now = m.ad[plat].authenticated,
                                     !.data = CallData(m.r, plat, op, k)]
    IN  Log([m EXCEPT !.r.pc = "wait", !.r.op = op, !.r.k = k], e)

RECURSIVE Loop(_)

\* [mutant of Continue] the batch loop ends at the first failed platform
ContinueUnlessFailed(m) ==
    IF m.r.kind = "single" \/ ~m.r.results[Len(m.r.results)].success
    THEN Finish(m, HTTP_OK, "")
    ELSE Loop([m EXCEPT !.r.i = @ + 1])

\* the handler after create_post returned or raised: post_to_single_platform
\* returns its PostResponse, post_to_platforms goes on with the next platform
Continue(m) ==
    IF m.r.kind = "single" THEN Finish(m, HTTP_OK, "")
    ELSE Loop([m EXCEPT !.r.i = @ + 1])

\* [mutant of PostFailed] the handler answers with an HTTP error, as
\* upload_media does
PostFailedAsHTTPError(m, err) == Finish(m, 500, err)

\* except Exception as e: a failed PostResponse for this platform
PostFailed(m, err) ==
    Continue([m EXCEPT !.r.results =
        Append(@, PostResponse(FALSE, Plat(m.r), "Failed to post", err))])

\* [mutant of PostSucceeded] the successful outcome is put at the head of the
\* list, as if results were collected in order of completion
PostSucceededFirst(m) ==
    Continue([m EXCEPT !.r.results =
        <<PostResponse(TRUE, Plat(m.r), "Successfully posted", "")>> \o @])

\* [mutant of PostSucceeded] the handler answers as soon as one platform has
\* succeeded
PostSucceededReturns(m) ==
    Finish([m EXCEPT !.r.results =
        Append(@, PostResponse(TRUE, Plat(m.r), "Successfully posted", ""))],
        HTTP_OK, "")

\* create_post returned: a successful PostResponse for this platform
PostSucceeded(m) ==
    Continue([m EXCEPT !.r.results =
        Append(@, PostResponse(TRUE, Plat(m.r), "Successfully posted", ""))])

\* [mutant of CreatePostRaised] every failure is raised with the same text
CreatePostRaisedOpaque(m, err) ==
    PostFailed(Log(m, [Here(m, "raised") EXCEPT !.op = "error"]), "error")

\* [mutant of CreatePostRaised] a failed post marks the adapter unauthenticated
CreatePostRaisedResets(m, err) ==
    LET plat == Plat(m.r)
        m1 == [m EXCEPT !.ad[plat] = MarkUnauthenticated(@)]
    IN  PostFailed(Log(m1, [Here(m1, "raised") EXCEPT !.op = err]), err)

\* create_post raises Exception("<Platform> post error: ...") to the handler
CreatePostRaised(m, err) ==
    PostFailed(Log(m, [Here(m, "raised") EXCEPT !.op = err]), err)

\* create_post returns its result dict to the handler
CreatePostReturned(m) == PostSucceeded(Log(m, Here(m, "returned")))

\* [mutant of Take] a step that fails after a call is tried once more
TakeRetrying(m, d) ==
    CASE d.act = "call" -> Issue(m, d.op, d.k)
      [] d.act = "fail" ->
           IF /\ m.r.pc = "wait"
              /\ Cardinality({j \in 1..Len(m.r.log) :
                                m.r.log[j].ev = "call" /\ m.r.log[j].op = m.r.op}) = 1
           THEN Issue(m, m.r.op, m.r.k)
           ELSE CreatePostRaised(m, d.err)
      [] OTHER -> CreatePostReturned(m)

\* carry out a decision of the publish sequence
Take(m, d) ==
    CASE d.act = "call" -> Issue(m, d.op, d.k)
      [] d.act = "fail" -> CreatePostRaised(m, d.err)
      [] OTHER -> CreatePostReturned(m)

\* [mutant of AuthFailed] authenticate reports the failure in its result instead
\* of raising, and create_post goes on
AuthFailedQuietly(m, why, status) ==
    LET plat == Plat(m.r)
        b == MarkUnauthenticated(m.ad[plat])
        e == [Here(m, "auth_end") EXCEPT !.op = why, !.status = status,
                     !.was = m.ad[plat].authenticated, !.now = b.authenticated]
        m1 == Log([m EXCEPT !.ad[plat] = b], e)
    IN  IF m.r.kind = "auth" THEN Finish(m1, HTTP_UNAUTHORIZED, why)
        ELSE Take(m1, FirstStep(plat, m.r.media))

\* authenticate raised: its except block, then the caller's (the auth endpoint
\* raises HTTPException 401, create_post re-raises into the posting handler)
AuthFailed(m, why, status) ==
    LET plat == Plat(m.r)
        b == MarkUnauthenticated(m.ad[plat])
        e == [Here(m, "auth_end") EXCEPT !.op = why, !.status = status,
                     !.was = m.ad[plat].authenticated, !.now = b.authenticated]
        m1 == Log([m EXCEPT !.ad[plat] = b], e)
    IN  IF m.r.kind = "auth" THEN Finish(m1, HTTP_UNAUTHORIZED, why)
        ELSE CreatePostRaised(m1, why)

\* authenticate returned: the auth endpoint answers, create_post goes on
AuthSucceeded(m, status) ==
    LET plat == Plat(m.r)
        b == MarkAuthenticated(m.ad[plat])
        e == [Here(m, "auth_end") EXCEPT !.op = "ok", !.status = status,
                     !.was = m.ad[plat].authenticated, !.now = b.authenticated]
        m1 == Log([m EXCEPT !.ad[plat] = b], e)
    IN  IF m.r.kind = "auth" THEN Finish(m1, HTTP_OK, "authenticated")
        ELSE Take(m1, FirstStep(plat, m.r.media))

\* poster.authenticate(...) up to its verification request
Authenticate(m, args) ==
    LET plat == Plat(m.r)
        a == m.ad[plat]
        b == AuthStore(a, m.env, plat, args)
        e == [Here(m, "authenticate") EXCEPT
                 !.op = IF args = NoArgs THEN "noargs" ELSE "args",
                 !.arg = args.access_token, !.prev = a.access_token,
                 !.cred = b.access_token, !.was = a.authenticated]
        m1 == Log([m EXCEPT !.ad[plat] = b], e)
        c == [Here(m, "call") EXCEPT !.op = "verify", !.cred = VerifyCredential(b, plat)]
    IN  IF MissingCredentials(b, plat) THEN AuthFailed(m1, "missing_credentials", 0)
        ELSE Log([m1 EXCEPT !.r.pc = "wait", !.r.op = "verify", !.r.k = 0], c)

\* [mutant of CreatePost] the arguments are checked before anything else
CreatePostChecksFirst(m) ==
    LET plat == Plat(m.r)
        e == [Here(m, "create_post") EXCEPT !.was = m.ad[plat].authenticated]
        m1 == Log(m, e)
    IN  IF m.ad[plat].authenticated \/ FirstStep(plat, m.r.media).act = "fail"
        THEN Take(m1, FirstStep(plat, m.r.media))
        ELSE Authenticate(m1, NoArgs)

\* poster.create_post(...) up to its first network wait
CreatePost(m) ==
    LET plat == Plat(m.r)
        e == [Here(m, "create_post") EXCEPT !.was = m.ad[plat].authenticated]
        m1 == Log(m, e)
    IN  IF m.ad[plat].authenticated THEN Take(m1, FirstStep(plat, m.r.media))
        ELSE Authenticate(m1, NoArgs)

\* [mutant of NotSupported] the generic failure message
NotSupportedAsFailure(platform) ==
    PostResponse(FALSE, platform, "Failed to post", "not_supported")

\* the PostResponse of a platform that is not in platform_posters
NotSupported(platform) ==
    PostResponse(FALSE, platform, "Platform not supported", "not_supported")

\* [mutant of Loop] a platform id met earlier in the list is passed over
LoopOnce(m) ==
    IF m.r.i > Len(m.r.platforms) THEN Finish(m, HTTP_OK, "")
    ELSE IF Plat(m.r) \notin SupportedSet
         THEN Loop([m EXCEPT !.r.results = Append(@, NotSupported(Plat(m.r))),
                             !.r.i = @ + 1])
         ELSE IF \E n \in 1..(m.r.i - 1) : m.r.platforms[n] = Plat(m.r)
         THEN Loop([m EXCEPT !.r.i = @ + 1])
         ELSE CreatePost(m)

\* for platform in content.platforms: ... return results
Loop(m) ==
    IF m.r.i > Len(m.r.platforms) THEN Finish(m, HTTP_OK, "")
    ELSE IF Plat(m.r) \notin SupportedSet
         THEN Loop([m EXCEPT !.r.results = Append(@, NotSupported(Plat(m.r))),
                             !.r.i = @ + 1])
         ELSE CreatePost(m)

\* [mutant of Returned] the id of the created container is not kept
ReturnedDropped(m, resp) == m

\* [mutant of Returned] the id of an uploaded medium is put at the head of
\* media_ids
ReturnedPrepended(m, resp) ==
    LET plat == Plat(m.r)
        op == m.r.op
    IN  CASE op = "container" /\ resp.status \in {200, 201} ->
               [m EXCEPT !.r.container_id = resp.id]
          [] plat = "tiktok" /\ op = "init" /\ resp.status \in {200, 201} ->
               [m EXCEPT !.r.upload_data = UploadData(resp)]
          [] plat = "x" /\ op = "INIT" /\ resp.status \in {200, 201, 202} ->
               [m EXCEPT !.r.media_id = resp.id]
          [] plat = "x" /\ op = "FINALIZE" /\ resp.status \in {200, 201} ->
               [m EXCEPT !.r.media_ids = <<m.r.media_id>> \o @]
          [] OTHER -> m

\* container_id = await self._create_media_container(...): result.get('id')
\* of an accepted container creation
Returned(m, resp) ==
    LET plat == Plat(m.r)
        op == m.r.op
    IN  CASE op = "container" /\ resp.status \in {200, 201} ->
               [m EXCEPT !.r.container_id = resp.id]
          \* upload_data = await self._initialize_upload()
          [] plat = "tiktok" /\ op = "init" /\ resp.status \in {200, 201} ->
               [m EXCEPT !.r.upload_data = UploadData(resp)]
          \* media_id = init_result.get('media_id_string')
          [] plat = "x" /\ op = "INIT" /\ resp.status \in {200, 201, 202} ->
               [m EXCEPT !.r.media_id = resp.id]
          \* media_ids.append(media_id), _upload_media having returned
          [] plat = "x" /\ op = "FINALIZE" /\ resp.status \in {200, 201} ->
               [m EXCEPT !.r.media_ids = Append(@, m.r.media_id)]
          [] OTHER -> m

\* the coroutine is resumed with the answer to the call it waits for
Resume(m, resp) ==
    LET plat == Plat(m.r)
    IN  IF m.r.op = "verify"
        THEN IF VerifyAccepted(plat, resp) THEN AuthSucceeded(m, resp.status)
             ELSE AuthFailed(m, IF resp.status = 200 THEN "no_channel"
                                ELSE "auth_rejected", resp.status)
        ELSE Take(Returned(m, resp),
                  NextStep(plat, m.r.op, m.r.k, resp.status, m.r.media, m.r.sched))

-----------------------------------------------------------------------------
(* Requests *)

RECURSIVE Split(_)

\* media_urls.split(','), the form value given as its pieces: URLs and commas
Split(s) ==
    IF s = <<>> THEN <<"">>
    ELSE IF Head(s) = "," THEN <<"">> \o Split(Tail(s))
    ELSE IF Len(s) = 1 THEN <<Head(s)>>
    ELSE <<Head(s)>> \o Split(Tail(Tail(s)))

\* media_list = media_urls.split(',') if media_urls else None
MediaList(form) == IF form = <<>> THEN <<>> ELSE Split(form)

\* class PostContent(BaseModel): text and platforms are required, nothing else
\* is asked of them
ValidPostContent(body) == {"text", "platforms"} \subseteq body.given

\* text: str = Form(...): a required form field; the framework takes an empty
\* form value for a missing one (test_post_to_single_platform_validation)
ValidPostForm(form) == "text" \in form.given /\ form.text # ""

\* class AuthCredentials(BaseModel): platform is required
ValidAuthCredentials(body) == "platform" \in body.given

Machine(p) == [ad |-> ad, env |-> env, r |-> rq[p]]

Commit(p, m) ==
    /\ ad' = m.ad
    /\ rq' = [rq EXCEPT ![p] = m.r]
    /\ UNCHANGED env

\* a request is received on the free slot p
Accept(p) == rq[p].pc = "idle"

\* the adapters are independent objects: no method of one reads or writes
\* another.  A behaviour of Spec addresses one of them: a request for a
\* platform is received while every other adapter is as constructed.
Untouched(plat) == ad[plat] = NewPoster(env, plat)

Addressed(platform) ==
    \A plat \in SupportedSet \ {platform} : Untouched(plat)

\* POST /api/post
PostBatch(p, body) ==
    LET r == Fresh("batch", body.given, body.platforms, body.text,
                   body.media_urls, body.schedule_time, NoArgs)
        m == [Machine(p) EXCEPT !.r = r]
    IN  /\ Accept(p)
        /\ IF ValidPostContent(body) THEN Commit(p, Loop(m))
           ELSE Commit(p, Finish(m, HTTP_UNPROCESSABLE, "validation"))

\* [mutant of PostSingle] an unsupported platform is answered as in the batch
\* handler: status 200 and a failed PostResponse
PostSingleLenient(p, platform, form) ==
    LET r == Fresh("single", form.given, <<platform>>, form.text,
                   MediaList(form.media_urls), form.schedule_time, NoArgs)
        m == [Machine(p) EXCEPT !.r = r]
    IN  /\ Accept(p)
        /\ IF ~ValidPostForm(form)
           THEN Commit(p, Finish(m, HTTP_UNPROCESSABLE, "validation"))
           ELSE IF platform \notin SupportedSet
           THEN Commit(p, Finish([m EXCEPT !.r.results = <<NotSupported(platform)>>],
                                 HTTP_OK, ""))
           ELSE Commit(p, CreatePost(m))

\* POST /api/post/{platform}
PostSingle(p, platform, form) ==
    LET r == Fresh("single", form.given, <<platform>>, form.text,
                   MediaList(form.media_urls), form.schedule_time, NoArgs)
        m == [Machine(p) EXCEPT !.r = r]
    IN  /\ Accept(p)
        /\ IF ~ValidPostForm(form)
           THEN Commit(p, Finish(m, HTTP_UNPROCESSABLE, "validation"))
           ELSE IF platform \notin SupportedSet
           THEN Commit(p, Finish(m, HTTP_BAD_REQUEST, "not_supported"))
           ELSE Commit(p, CreatePost(m))

\* POST /api/auth/{platform}
AuthenticatePlatform(p, platform, body) ==
    LET args == [access_token |-> body.access_token, api_key |-> body.api_key,
                 api_secret |-> body.api_secret, id |-> body.id]
        r == Fresh("auth", body.given, <<platform>>, "", <<>>, "", args)
        m == [Machine(p) EXCEPT !.r = r]
    IN  /\ Accept(p)
        /\ IF ~ValidAuthCredentials(body)
           THEN Commit(p, Finish(m, HTTP_UNPROCESSABLE, "validation"))
           ELSE IF platform \notin SupportedSet
           THEN Commit(p, Finish(m, HTTP_BAD_REQUEST, "not_supported"))
           ELSE Commit(p, Authenticate(m, args))

\* GET /, GET /health, GET /api/platforms: each returns a literal (health_check
\* also the keys of platform_posters)
ReadOnlyPaths == {"/", "/health", "/api/platforms"}

\* an entry of the list that get_supported_platforms returns
Entry(id, media, video, scheduling) ==
    [id |-> id, supports_media |-> media, supports_video |-> video,
     supports_scheduling |-> scheduling]

\* the "platforms" list of get_supported_platforms
Catalog ==
    <<Entry("facebook", TRUE, TRUE, TRUE), Entry("instagram", TRUE, TRUE, TRUE),
      Entry("tiktok", FALSE, TRUE, TRUE), Entry("x", TRUE, TRUE, FALSE),
      Entry("threads", TRUE, TRUE, FALSE), Entry("youtube", FALSE, TRUE, TRUE)>>

ReadOnly(p, path) ==
    LET r == [Fresh("read", {}, <<>>, "", <<>>, "", NoArgs) EXCEPT
                 !.detail = path,
                 !.results = IF path = "/api/platforms" THEN Catalog ELSE <<>>]
        m == [Machine(p) EXCEPT !.r = r]
    IN  /\ Accept(p)
        /\ Commit(p, Finish(m, HTTP_OK, path))

\* the call that request p waits for is answered
Respond(p, resp) ==
    /\ rq[p].pc = "wait"
    /\ resp \in Responses(Plat(rq[p]), rq[p].op)
    /\ Commit(p, Resume(Machine(p), resp))

\* the credentials the providers hold valid: the configured ones
ValidCredentials == {"env_tok", "env_bearer"}

\* a provider that accepts the valid credentials and every post made with
\* them and refuses the rest; a media host that serves every URL
Honest(call) ==
    [status |-> IF call.cred \in ValidCredentials
                   \/ call.op \in {"download", "put", "complete"}
                THEN 200 ELSE 400,
     items |-> TRUE,
     id |-> IF call.op \in IdSteps THEN "c1" ELSE NoId]

\* the call that request p waits for: the last entry of its history
Awaited(r) == r.log[Len(r.log)]

\* the response of request p is sent and its coroutine ends
Reply(p) ==
    /\ rq[p].pc = "done"
    /\ rq' = [rq EXCEPT ![p] = Idle]
    /\ UNCHANGED <<ad, env>>

-----------------------------------------------------------------------------
(* Config *)

\* the variables that validate_credentials looks at
ConfigVars ==
    TokenVars \cup {"INSTAGRAM_ACCOUNT_ID", "THREADS_USER_ID",
                    "X_BEARER_TOKEN", "X_ACCESS_TOKEN_SECRET"}

\* cls.<NAME> is not None: the class attribute is os.getenv('<NAME>') as read
\* when config.py is imported
IsSet(e, name) == getenv(e, name) # ""

\* [mutant of validate_credentials] the access token alone decides
validate_token_only(e, platform) ==
    platform \in SupportedSet /\ IsSet(e, TokenVar(platform))

\* Config.validate_credentials(platform): validation_map.get(platform, False)
validate_credentials(e, platform) ==
    CASE platform = "facebook" -> IsSet(e, "FACEBOOK_ACCESS_TOKEN")
      [] platform = "instagram" ->
           IsSet(e, "INSTAGRAM_ACCESS_TOKEN") /\ IsSet(e, "INSTAGRAM_ACCOUNT_ID")
      [] platform = "tiktok" -> IsSet(e, "TIKTOK_ACCESS_TOKEN")
      [] platform = "x" ->
           \/ IsSet(e, "X_BEARER_TOKEN")
           \/ IsSet(e, "X_ACCESS_TOKEN") /\ IsSet(e, "X_ACCESS_TOKEN_SECRET")
      [] platform = "threads" ->
           IsSet(e, "THREADS_ACCESS_TOKEN") /\ IsSet(e, "THREADS_USER_ID")
      [] platform = "youtube" -> IsSet(e, "YOUTUBE_ACCESS_TOKEN")
      [] OTHER -> FALSE

\* Config.get_available_platforms():
\* [p for p in platforms if cls.validate_credentials(p)]
get_available_platforms(e) ==
    SelectSeq(Supported, LAMBDA platform : validate_credentials(e, platform))

\* a caller evaluates Config.validate_credentials(platform)
ValidateCredentials(p, platform) ==
    /\ Accept(p)
    /\ rq' = [rq EXCEPT ![p] =
                [Fresh("validate", {}, <<platform>>, "", <<>>, "", NoArgs) EXCEPT
                    !.pc = "done",
                    !.results = <<validate_credentials(env, platform)>>]]
    /\ UNCHANGED <<ad, env>>

\* a caller evaluates Config.get_available_platforms()
GetAvailablePlatforms(p) ==
    /\ Accept(p)
    /\ rq' = [rq EXCEPT ![p] =
                [Fresh("available", {}, <<>>, "", <<>>, "", NoArgs) EXCEPT
                    !.pc = "done",
                    !.results = get_available_platforms(env)]]
    /\ UNCHANGED <<ad, env>>

-----------------------------------------------------------------------------
(* YouTube title and description; a text is the sequence of its characters *)

NewLine == "\n"

\* str.find(c), counted from 1: the place of the first c in text, 0 without
find(text, c) ==
    LET at == {i \in 1..Len(text) : text[i] = c}
    IN  IF at = {} THEN 0 ELSE CHOOSE i \in at : \A j \in at : i <= j

\* text.split('\n', 1)
split(text) ==
    LET n == find(text, NewLine)
    IN  IF n = 0 THEN <<text>>
        ELSE <<SubSeq(text, 1, n - 1), SubSeq(text, n + 1, Len(text))>>

\* [mutant of title] the first line is taken whole
title_whole(text) == split(text)[1]

\* title = lines[0][:100]
title(text) == SubSeq(split(text)[1], 1, Min(TitleMax, Len(split(text)[1])))

\* description = lines[1] if len(lines) > 1 else text
description(text) == IF Len(split(text)) > 1 THEN split(text)[2] ELSE text

\* YouTubePoster.create_post from the split of text to the keyword arguments
\* of _upload_video
ExtractTitle(p, text) ==
    /\ Accept(p)
    /\ rq' = [rq EXCEPT ![p] =
                [Fresh("title", {}, <<"youtube">>, text, <<>>, "", NoArgs) EXCEPT
                    !.pc = "done",
                    !.results = <<title(text), description(text)>>]]
    /\ UNCHANGED <<ad, env>>

-----------------------------------------------------------------------------
(* Inputs *)

Procs == {1, 2}

RECURSIVE SeqsUpTo(_, _)
\* the sequences over S of length at most n
SeqsUpTo(S, n) ==
    IF n = 0 THEN {<<>>}
    ELSE LET shorter == SeqsUpTo(S, n - 1)
         IN  shorter \cup {Append(q, x) : q \in shorter, x \in S}

Texts == {"", "hello"}

MediaLists == {<<>>, <<"v.mp4">>}

Schedules == {"", "1700000000", "2026-01-01T10:00:00"}

\* the text, media_urls and schedule_time of the POST /api/post bodies considered
PostContents ==
    {[text |-> "", media_urls |-> <<>>, schedule_time |-> ""],
     [text |-> "hello", media_urls |-> <<>>, schedule_time |-> ""],
     [text |-> "hello", media_urls |-> <<"v.mp4">>, schedule_time |-> "1700000000"],
     [text |-> "hello", media_urls |-> <<"v.mp4">>,
      schedule_time |-> "2026-01-01T10:00:00"]}

PostBody(given, platforms, c) ==
    [given |-> given, platforms |-> platforms, text |-> c.text,
     media_urls |-> c.media_urls, schedule_time |-> c.schedule_time]

NoContent == [text |-> Absent, media_urls |-> <<>>, schedule_time |-> ""]

PostBodies ==
    {PostBody({"text", "platforms"}, platforms, c) :
        platforms \in SeqsUpTo(PlatformIds, MaxBatch), c \in PostContents}
      \cup {PostBody(given, <<>>, NoContent) : given \in {{}, {"platforms"}}}
      \cup {PostBody({"text"}, <<>>, c) : c \in PostContents}

FormMedia ==
    {<<>>, <<"v.mp4">>, <<"a.jpg", ",", "v.mp4">>, <<"V.MOV", ",", "a.jpg">>,
     <<"a.jpg", ",", "b.jpg", ",", "c.jpg", ",", "d.jpg", ",", "e.jpg">>}

PostForms ==
    [given : {{"text"}}, text : Texts, media_urls : FormMedia,
     schedule_time : Schedules]
      \cup [given : {{}}, text : {Absent}, media_urls : {<<>>}, schedule_time : {""}]

\* the responses considered, to any call
ProviderResponses ==
    [status : StatusCodes, items : BOOLEAN, id : ContainerIds \cup {NoId}]

AuthBodies ==
    [given : {{"platform"}}, access_token : {"", "arg_tok"},
     api_key : {"", "arg_key"}, api_secret : {"", "arg_sec"},
     id : {Absent, "", "arg_id"}]
      \cup [given : {{}}, access_token : {""}, api_key : {""}, api_secret : {""},
            id : {Absent}]

-----------------------------------------------------------------------------
(* Spec: the server handling one request at a time, the requests of a      *)
(* behaviour addressing one platform                                       *)

Init ==
    /\ env \in {EnvOf(set) : set \in EnvProfiles}
    /\ ad = [plat \in SupportedSet |-> NewPoster(env, plat)]
    /\ rq = [p \in Procs |-> Idle]

Next ==
    \/ /\ Accept(1)
       /\ \E platform \in PlatformIds :
             /\ Addressed(platform)
             /\ \E form \in PostForms : PostSingle(1, platform, form)
    \/ /\ Accept(1)
       /\ \E platform \in PlatformIds :
             /\ Addressed(platform)
             /\ \E body \in AuthBodies : AuthenticatePlatform(1, platform, body)
    \/ \E path \in ReadOnlyPaths : ReadOnly(1, path)
    \/ \E resp \in ProviderResponses : Respond(1, resp)
    \/ Reply(1)

Spec == Init /\ [][Next]_vars

-----------------------------------------------------------------------------
(* SpecBatch: one POST /api/post request to the server as started          *)

NextBatch ==
    \/ Accept(1) /\ \E body \in PostBodies : PostBatch(1, body)
    \/ \E resp \in [status : StatusCodes, items : BOOLEAN, id : {NoId, "c1"}] :
          Respond(1, resp)

\* the deployments considered for the batch endpoint: those in which X, when its
\* access token is configured, has its bearer token too
InitBatch ==
    /\ Init
    /\ getenv(env, "X_ACCESS_TOKEN") # "" => getenv(env, "X_BEARER_TOKEN") # ""

SpecBatch == InitBatch /\ [][NextBatch]_vars

\* the call that the request waits for is answered, with whatever response
Answered ==
    \E resp \in [status : StatusCodes, items : BOOLEAN, id : {NoId, "c1"}] :
        Respond(1, resp)

\* every awaited call is answered in the end (the event loop resumes a
\* coroutine whose awaited response has arrived): weak fairness of Answered,
\* whose enabling condition is written as the state predicate it equals, the
\* request waiting for a response (C30_BatchReturns checks that a waiting
\* request can always be answered)
AnsweredInTheEnd ==
    []<>(rq[1].pc # "wait") \/ []<><<Answered>>_vars

\* SpecBatchFair: the same, every awaited call being answered in the end
SpecBatchFair == SpecBatch /\ AnsweredInTheEnd

-----------------------------------------------------------------------------
(* SpecRace: two POST /api/post/facebook requests served concurrently by   *)
(* the server as started, Facebook credentials configured, the provider    *)
(* accepting them                                                          *)

InitRace ==
    /\ Init
    /\ getenv(env, "FACEBOOK_ACCESS_TOKEN") # ""

NextRace ==
    \/ \E p \in Procs :
          Accept(p) /\ \E form \in PostForms : PostSingle(p, "facebook", form)
    \/ \E p \in Procs :
          rq[p].pc = "wait" /\ Respond(p, Honest(Awaited(rq[p])))

SpecRace == InitRace /\ [][NextRace]_vars

-----------------------------------------------------------------------------
(* SpecShared: two requests served concurrently on one adapter, each a     *)
(* POST /api/post/{platform} or a POST /api/auth/{platform}, the provider  *)
(* accepting the configured credentials and no others                      *)

\* the adapters considered: one with a one-call and one with a two-call
\* publish sequence
SharedPlatforms == {"facebook", "instagram"}

SharedForms ==
    [given : {{"text"}}, text : {"hello"}, media_urls : {<<>>, <<"v.mp4">>},
     schedule_time : {""}]

SharedBodies ==
    [given : {{"platform"}}, access_token : {"", "arg_tok"},
     api_key : {""}, api_secret : {""}, id : {Absent}]

NextShared ==
    \/ \E p \in Procs :
          /\ Accept(p)
          /\ \E platform \in SharedPlatforms :
                /\ Addressed(platform)
                /\ \E form \in SharedForms : PostSingle(p, platform, form)
    \/ \E p \in Procs :
          /\ Accept(p)
          /\ \E platform \in SharedPlatforms :
                /\ Addressed(platform)
                /\ \E body \in SharedBodies : AuthenticatePlatform(p, platform, body)
    \/ \E p \in Procs :
          rq[p].pc = "wait" /\ Respond(p, Honest(Awaited(rq[p])))

SpecShared == Init /\ [][NextShared]_vars

-----------------------------------------------------------------------------
(* SpecConfig: Config evaluated under every combination of the variables   *)
(* it looks at being set or not                                            *)

InitConfig ==
    /\ env \in {EnvOf(set) : set \in SUBSET ConfigVars}
    /\ ad = [plat \in SupportedSet |-> NewPoster(env, plat)]
    /\ rq = [p \in Procs |-> Idle]

NextConfig ==
    \/ \E platform \in PlatformIds : ValidateCredentials(1, platform)
    \/ GetAvailablePlatforms(1)
    \/ Reply(1)

SpecConfig == InitConfig /\ [][NextConfig]_vars

-----------------------------------------------------------------------------
(* SpecTitle: YouTube create_post splitting texts of one to three lines     *)

\* a line of n characters
Line(n) == [i \in 1..n |-> "a"]

\* what follows the first line: nothing, or a newline and the rest of the text
Rests ==
    {<<>>, <<NewLine>>, <<NewLine, "b">>, <<NewLine, "b", NewLine, "c">>,
     <<NewLine, NewLine, "c">>}

TitleTexts == {Line(n) \o rest : n \in 0..MaxLine, rest \in Rests}

InitTitle ==
    /\ env = EnvOf({})
    /\ ad = [plat \in SupportedSet |-> NewPoster(env, plat)]
    /\ rq = [p \in Procs |-> Idle]

NextTitle ==
    \/ \E text \in TitleTexts : ExtractTitle(1, text)
    \/ Reply(1)

SpecTitle == InitTitle /\ [][NextTitle]_vars

-----------------------------------------------------------------------------
(* Properties *)

\* the entries of request r's history made for position n of its platforms
At(r, n) == {j \in 1..Len(r.log) : r.log[j].pos = n}

\* the entries of kind ev among them
AtOf(r, n, ev) == {j \in At(r, n) : r.log[j].ev = ev}

\* a well-formed POST /api/post request
IsBatch(r) == r.kind = "batch" /\ ValidPostContent(r)

\* "not supported" in message.lower(), over the messages the handlers produce
MentionsNotSupported(message) == message = "Platform not supported"

\* C1: the response to a well-formed POST /api/post is a list holding one
\* outcome per entry of platforms, outcome n carrying the platform id of entry
\* n, whatever the adapters did; while the handler runs, the outcomes so far are
\* those of a prefix of platforms.  (SpecBatch)
C1_OrderPreserved ==
    \A p \in Procs :
        LET r == rq[p]
        IN  IsBatch(r) =>
              /\ Len(r.results) <= Len(r.platforms)
              /\ \A n \in 1..Len(r.results) : r.results[n].platform = r.platforms[n]
              /\ r.pc = "done" =>
                    r.status = HTTP_OK /\ Len(r.results) = Len(r.platforms)

\* a batch over an unsupported and a supported id has been answered, one
\* adapter having succeeded
C1_Witness ==
    \E p \in Procs :
        LET r == rq[p]
        IN  /\ IsBatch(r) /\ r.pc = "done" /\ Len(r.platforms) = 2
            /\ r.platforms[1] \notin SupportedSet
            /\ r.platforms[2] \in SupportedSet
            /\ r.results[2].success

\* C2: in a POST /api/post batch, every entry of platforms that has no adapter
\* gets an outcome with success false and a message containing "not supported",
\* at whatever position, and no adapter method is entered nor any call issued
\* for that position.  (SpecBatch)
C2_UnsupportedRefused ==
    \A p \in Procs :
        LET r == rq[p]
        IN  IsBatch(r) =>
              \A n \in 1..Len(r.platforms) :
                  r.platforms[n] \notin SupportedSet =>
                    /\ At(r, n) = {}
                    /\ r.pc = "done" => n <= Len(r.results)
                    /\ n <= Len(r.results) =>
                          /\ ~r.results[n].success
                          /\ MentionsNotSupported(r.results[n].message)

\* a batch has been answered whose second entry is unsupported and whose first
\* entry had its adapter's create_post entered
C2_Witness ==
    \E p \in Procs :
        LET r == rq[p]
        IN  /\ IsBatch(r) /\ r.pc = "done" /\ Len(r.platforms) = 2
            /\ r.platforms[2] \notin SupportedSet
            /\ AtOf(r, 1, "create_post") # {}
            /\ ~r.results[2].success

\* C3: a POST /api/post batch is answered with status 200; create_post is
\* entered exactly once for every supported entry of platforms, also after an
\* entry whose adapter failed; and the outcome of an entry is a failure exactly
\* when its own create_post raised, a success exactly when it returned.
\* (SpecBatch)
C3_FailureIsolated ==
    \A p \in Procs :
        LET r == rq[p]
        IN  IsBatch(r) /\ r.pc = "done" =>
              /\ r.status = HTTP_OK
              /\ \A n \in 1..Len(r.platforms) :
                    r.platforms[n] \in SupportedSet =>
                      /\ Cardinality(AtOf(r, n, "create_post")) = 1
                      /\ n <= Len(r.results)
                      /\ r.results[n].success <=> AtOf(r, n, "returned") # {}
                      /\ ~r.results[n].success <=> AtOf(r, n, "raised") # {}

\* a batch has been answered in which the first adapter failed after its
\* authentication and the adapter of another platform, listed after it, was
\* invoked and succeeded
C3_Witness ==
    \E p \in Procs :
        LET r == rq[p]
        IN  /\ IsBatch(r) /\ r.pc = "done" /\ Len(r.platforms) = 2
            /\ r.platforms[1] \in SupportedSet
            /\ r.platforms[2] \in SupportedSet \ {r.platforms[1]}
            /\ \E j \in AtOf(r, 1, "raised") : r.log[j].op = "provider"
            /\ AtOf(r, 2, "returned") # {}
            /\ ~r.results[1].success /\ r.results[2].success

\* C4: a POST /api/post whose text is empty or whose platforms list is empty,
\* and a POST /api/post/{platform} whose text is empty, is answered with the
\* validation status and no adapter method is entered for it.  (SpecBatch)
C4_EmptyRejected ==
    \A p \in Procs :
        LET r == rq[p]
        IN  (\/ IsBatch(r) /\ (r.text = "" \/ r.platforms = <<>>)
             \/ r.kind = "single" /\ r.text = "")
              => /\ r.log = <<>>
                 /\ r.pc = "done" => r.status = HTTP_UNPROCESSABLE

\* a POST /api/post/{platform} or POST /api/auth/{platform} request
IsPlain(r) == r.kind \in {"single", "auth"}

\* it passed the validation of its form or body
WellFormed(r) == IF r.kind = "single" THEN ValidPostForm(r) ELSE ValidAuthCredentials(r)

\* the entries that a step added to the history of request p
Added(p) == {j \in 1..Len(rq'[p].log) : j > Len(rq[p].log) \/ rq[p].pc = "idle"}

\* C5 as stated: POST /api/post/{platform} and POST /api/auth/{platform} for a
\* platform without adapter are answered with status 400 "not supported" and
\* no adapter method is entered.  (Spec)
C5_Original ==
    \A p \in Procs :
        LET r == rq[p]
        IN  IsPlain(r) /\ r.pc = "done" /\ r.platforms[1] \notin SupportedSet =>
              /\ r.status = HTTP_BAD_REQUEST
              /\ r.detail = "not_supported"
              /\ r.log = <<>>

\* C5 as amended: such a request is answered at once, with status 400 "not
\* supported" when it passes validation and with the validation status 422
\* when it does not; either way no adapter method is entered, no outcome is
\* produced and no adapter is changed.  (Spec)
C5_UnknownPlatform ==
    /\ [](\A p \in Procs :
            LET r == rq[p]
            IN  IsPlain(r) /\ r.platforms[1] \notin SupportedSet =>
                  /\ r.pc = "done"
                  /\ r.log = <<>> /\ r.results = <<>>
                  /\ WellFormed(r) =>
                        r.status = HTTP_BAD_REQUEST /\ r.detail = "not_supported"
                  /\ ~WellFormed(r) => r.status = HTTP_UNPROCESSABLE)
    /\ [][\A p \in Procs :
            (/\ rq[p].pc = "idle"
             /\ IsPlain(rq'[p])
             /\ rq'[p].platforms[1] \notin SupportedSet) => ad' = ad]_vars

\* a well-formed POST /api/post/{platform} for an unsupported platform has been
\* answered with status 400
C5_Witness ==
    \E p \in Procs :
        LET r == rq[p]
        IN  /\ r.kind = "single" /\ r.pc = "done" /\ WellFormed(r)
            /\ r.platforms[1] \notin SupportedSet
            /\ r.status = HTTP_BAD_REQUEST

\* C6: a well-formed POST /api/post/{platform} for a supported platform is
\* answered with status 200 and one outcome carrying the requested id; the
\* outcome is a failure with the error of create_post when create_post raised
\* (at authentication, media fetch or a refused step), and a success exactly
\* when create_post returned.  (Spec)
C6_SingleOutcome ==
    \A p \in Procs :
        LET r == rq[p]
        IN  (/\ r.kind = "single" /\ r.pc = "done" /\ WellFormed(r)
             /\ r.platforms[1] \in SupportedSet) =>
              /\ r.status = HTTP_OK
              /\ Len(r.results) = 1
              /\ r.results[1].platform = r.platforms[1]
              /\ r.results[1].success <=> AtOf(r, 1, "returned") # {}
              /\ ~r.results[1].success <=> AtOf(r, 1, "raised") # {}
              /\ \A j \in AtOf(r, 1, "raised") :
                    r.results[1].error = r.log[j].op /\ r.results[1].error # ""

\* a POST /api/post/{platform} whose media could not be fetched has been
\* answered with status 200 and a failed outcome
C6_Witness ==
    \E p \in Procs :
        LET r == rq[p]
        IN  /\ r.kind = "single" /\ r.pc = "done"
            /\ r.status = HTTP_OK
            /\ \E j \in AtOf(r, 1, "raised") : r.log[j].op = "media_fetch"
            /\ ~r.results[1].success

\* C7: two concurrent POST /api/post/facebook requests on the unauthenticated
\* adapter, the provider accepting the configured token: in every interleaving
\* each request's calls carry the configured token, each authentication it runs
\* succeeds, its create_post does not raise and it ends with status 200 and a
\* successful outcome.  (SpecRace)
C7_BothSucceed ==
    \A p \in Procs :
        LET r == rq[p]
        IN  r.kind = "single" /\ WellFormed(r) =>
              /\ \A j \in 1..Len(r.log) :
                    /\ r.log[j].ev = "call" =>
                          r.log[j].cred = getenv(env, "FACEBOOK_ACCESS_TOKEN")
                    /\ r.log[j].ev = "auth_end" => r.log[j].op = "ok"
                    /\ r.log[j].ev # "raised"
              /\ r.pc = "done" =>
                    /\ r.status = HTTP_OK
                    /\ Len(r.results) = 1 /\ r.results[1].success

\* both requests have ended, each having authenticated the adapter itself
C7_Witness ==
    \A p \in Procs :
        LET r == rq[p]
        IN  /\ r.kind = "single" /\ r.pc = "done"
            /\ AtOf(r, 1, "authenticate") # {}
            /\ r.results[1].success

\* C8: every adapter starts unauthenticated; its flag becomes true only in a
\* step in which an authenticate call on it receives a 200 verification
\* response; and every step in which an authenticate call on it fails (missing
\* credentials, refused verification, no channel) leaves the flag false, also
\* when it was true before.  (Spec)
C8_AuthenticatedFlag ==
    /\ \A plat \in SupportedSet : ~ad[plat].authenticated
    /\ [][\A plat \in SupportedSet :
            ~ad[plat].authenticated /\ ad'[plat].authenticated =>
              \E p \in Procs :
                  /\ rq[p].pc = "wait" /\ rq[p].op = "verify"
                  /\ Plat(rq[p]) = plat
                  /\ \E j \in Added(p) :
                        /\ rq'[p].log[j].ev = "auth_end"
                        /\ rq'[p].log[j].op = "ok"
                        /\ rq'[p].log[j].status = 200]_vars
    /\ [][\A p \in Procs : \A j \in Added(p) :
            rq'[p].log[j].ev = "auth_end" /\ rq'[p].log[j].op # "ok" =>
              ~ad'[rq'[p].log[j].plat].authenticated]_vars

\* an authenticate call has failed on an adapter that was authenticated
C8_Witness ==
    \E p \in Procs : \E j \in 1..Len(rq[p].log) :
        /\ rq[p].log[j].ev = "auth_end"
        /\ rq[p].log[j].op = "auth_rejected"
        /\ rq[p].log[j].was

\* the entry that follows entry j of a history: what authenticate did after
\* its assignments (the verification call, or the end for missing credentials)
Following(r, j) == r.log[j + 1]

\* C9 as stated: authenticate stores and verifies with the explicit token if
\* given, otherwise the token held by the adapter, otherwise the environment's;
\* without any it fails for missing credentials and issues no verification;
\* for every adapter, X included.  (Spec)
C9_Original ==
    \A p \in Procs : \A j \in 1..Len(rq[p].log) :
        LET r == rq[p]
            e == r.log[j]
            chosen == Or(e.arg, Or(e.prev, getenv(env, TokenVar(e.plat))))
        IN  e.ev = "authenticate" =>
              /\ e.cred = chosen
              /\ chosen = "" => Following(r, j).op = "missing_credentials"
              /\ Following(r, j).ev = "call" => Following(r, j).cred = chosen

\* C9 as amended: authenticate stores the explicit token if given and
\* otherwise the environment's, whatever token the adapter held.  Every
\* adapter but X fails for missing credentials, without verification request,
\* when that token is empty, and verifies with that token.  X verifies with
\* the configured bearer token (with no credential when there is none) and
\* fails for missing credentials exactly when there is neither a bearer token
\* nor both the token and the environment's token secret.  (Spec)
C9_Precedence ==
    \A p \in Procs : \A j \in 1..Len(rq[p].log) :
        LET r == rq[p]
            e == r.log[j]
            next == Following(r, j)
            bearer == getenv(env, "X_BEARER_TOKEN")
            secret == getenv(env, "X_ACCESS_TOKEN_SECRET")
        IN  e.ev = "authenticate" =>
              /\ e.cred = Or(e.arg, getenv(env, TokenVar(e.plat)))
              /\ next.ev \in {"call", "auth_end"}
              /\ next.ev = "call" => next.op = "verify"
              /\ next.ev = "auth_end" => next.op = "missing_credentials"
              /\ e.plat # "x" =>
                    /\ e.cred = "" => next.ev = "auth_end"
                    /\ next.ev = "call" => next.cred = e.cred
              /\ e.plat = "x" =>
                    /\ next.ev = "call" => next.cred = bearer
                    /\ next.ev = "auth_end" <=>
                          bearer = "" /\ ~(e.cred # "" /\ secret # "")

\* an authenticate call without token argument, on an adapter holding the
\* token of an earlier explicit authenticate, has stored another token
C9_Witness ==
    \E p \in Procs : \E j \in 1..Len(rq[p].log) :
        /\ rq[p].log[j].ev = "authenticate"
        /\ rq[p].log[j].arg = ""
        /\ rq[p].log[j].prev = "arg_tok"
        /\ rq[p].log[j].cred # "arg_tok"

\* C10: create_post entered on an unauthenticated adapter first calls
\* authenticate with no argument; when that authenticate fails, create_post
\* raises at once, the outcome is a failure, and the only call issued for the
\* post is the verification request, if any.  (Spec)
C10_AuthBeforePost ==
    \A p \in Procs : \A j \in 1..Len(rq[p].log) :
        LET r == rq[p]
            e == r.log[j]
        IN  r.kind = "single" =>
              /\ e.ev = "create_post" /\ ~e.was =>
                    /\ Following(r, j).ev = "authenticate"
                    /\ Following(r, j).op = "noargs"
              /\ e.ev = "auth_end" /\ e.op # "ok" =>
                    /\ Len(r.log) = j + 1
                    /\ Following(r, j).ev = "raised"
                    /\ \A n \in 1..Len(r.log) :
                          r.log[n].ev = "call" => r.log[n].op = "verify"
                    /\ r.pc = "done" /\ ~r.results[1].success

\* a post with a media URL has failed on an unauthenticated adapter whose
\* verification request was refused
C10_Witness ==
    \E p \in Procs : \E j \in 1..Len(rq[p].log) :
        LET r == rq[p]
        IN  /\ r.kind = "single" /\ r.media # <<>>
            /\ r.log[1].ev = "create_post" /\ ~r.log[1].was
            /\ r.log[j].ev = "auth_end" /\ r.log[j].op = "auth_rejected"
            /\ r.pc = "done"

\* the calls of the publish sequences that are made to the provider (the
\* identity verification and the download of a media URL are not among them)
ProviderSteps ==
    {"feed", "container", "publish", "init", "put", "INIT", "APPEND", "FINALIZE",
     "tweet", "initiate", "complete"}

\* the 2xx status codes among those considered
SuccessCodes == {200, 201, 202, 204}

\* request p after the call it waits for is answered with resp
After(p, resp) == Resume(Machine(p), resp).r

\* the single-platform posting request p
IsPost(r) == r.kind = "single" /\ r.log # <<>>

\* the calls of request r so far
Calls(r) == {j \in 1..Len(r.log) : r.log[j].ev = "call"}

\* C11 as stated: whenever a request waits for the answer to a provider step,
\* every non-2xx answer makes create_post raise at once, with no further call
\* and a failed outcome.  (Spec)
C11_RefusalStops ==
    \A p \in Procs :
        LET r == rq[p]
        IN  IsPost(r) /\ r.pc = "wait" /\ r.op \in ProviderSteps =>
              \A resp \in Responses(Plat(r), r.op) :
                  resp.status \notin SuccessCodes =>
                    LET n == After(p, resp)
                    IN  /\ n.log[Len(r.log) + 1].ev = "raised"
                        /\ Calls(n) = Calls(r)
                        /\ n.pc = "done" /\ ~n.results[1].success

Downloaders == {"tiktok", "x", "youtube"}

\* a non-200 answer to a media download makes create_post raise at once with
\* the media-fetch error, which is not the error of a refused provider step
FetchFailureRaised(p) ==
    LET r == rq[p]
    IN  IsPost(r) /\ r.pc = "wait" /\ r.op = "download" =>
          \A resp \in Responses(Plat(r), r.op) :
              resp.status # 200 =>
                LET n == After(p, resp)
                IN  /\ n.log[Len(r.log) + 1].ev = "raised"
                    /\ n.log[Len(r.log) + 1].op = "media_fetch"
                    /\ Calls(n) = Calls(r)
                    /\ n.pc = "done" /\ ~n.results[1].success
                    /\ n.results[1].error = "media_fetch"
                    /\ n.results[1].error # "provider"

\* C13 as stated: for TikTok, X and YouTube a non-200 media download makes
\* create_post fail with the media-fetch error, and the post has uploaded no
\* media bytes to the provider and issued no publish / tweet call.  (Spec)
C13_Original ==
    \A p \in Procs :
        LET r == rq[p]
        IN  /\ FetchFailureRaised(p)
            /\ \A j \in 1..Len(r.log) :
                  (/\ IsPost(r) /\ Plat(r) \in Downloaders
                   /\ r.log[j].ev = "raised" /\ r.log[j].op = "media_fetch") =>
                    \A n \in Calls(r) :
                        r.log[n].op \notin {"put", "APPEND", "complete", "publish", "tweet"}

\* C13 as amended: for TikTok, X and YouTube a non-200 media download makes
\* create_post fail with the media-fetch error; the bytes of that media item
\* are not uploaded, nothing is issued after the download, and no publish /
\* tweet call is issued.  The X media items before it in the list have been
\* uploaded in full by then.  (Spec)
C13_MediaFetch ==
    \A p \in Procs :
        LET r == rq[p]
        IN  /\ FetchFailureRaised(p)
            /\ \A j \in 1..Len(r.log) :
                  (/\ IsPost(r) /\ Plat(r) \in Downloaders
                   /\ r.log[j].ev = "raised" /\ r.log[j].op = "media_fetch") =>
                    LET item == r.log[j - 1].k
                    IN  /\ r.log[j - 1].ev = "call" /\ r.log[j - 1].op = "download"
                        /\ j = Len(r.log)
                        /\ \A n \in Calls(r) :
                              /\ r.log[n].op \notin {"publish", "tweet"}
                              /\ r.log[n].op \in {"put", "APPEND", "complete"} =>
                                    r.log[n].k < item
                        /\ \A k \in 1..(item - 1) :
                              \E n \in Calls(r) :
                                  r.log[n].op = "FINALIZE" /\ r.log[n].k = k

\* an X post with two media URLs has failed at the download of the second,
\* the first having been uploaded
C13_Witness ==
    \E p \in Procs :
        LET r == rq[p]
        IN  /\ IsPost(r) /\ Plat(r) = "x" /\ r.pc = "done"
            /\ r.log[Len(r.log)].ev = "raised"
            /\ r.log[Len(r.log)].op = "media_fetch"
            /\ \E n \in Calls(r) : r.log[n].op = "APPEND" /\ r.log[n].k = 1

\* C14: an adapter's credentials and flag change only in a step in which
\* authenticate runs on it; every step of a create_post entered on an
\* authenticated adapter, whether the post succeeds or fails, and every
\* read-only endpoint (/, /health, /api/platforms) leaves all adapters as
\* they were.  (Spec)
C14_OnlyAuthenticate ==
    /\ [][\A plat \in SupportedSet :
            ad'[plat] # ad[plat] =>
              \E p \in Procs : \E j \in Added(p) :
                  /\ rq'[p].log[j].plat = plat
                  /\ rq'[p].log[j].ev \in {"authenticate", "auth_end"}]_vars
    /\ [][\A p \in Procs :
            (/\ rq'[p] # rq[p]
             /\ \/ IsPost(rq'[p]) /\ rq'[p].log[1].was
                \/ rq'[p].kind = "read") => ad' = ad]_vars

\* a post on an authenticated adapter has failed and the adapter is still
\* authenticated
C14_Witness ==
    \E p \in Procs :
        LET r == rq[p]
        IN  /\ IsPost(r) /\ r.log[1].was /\ r.pc = "done"
            /\ ~r.results[1].success
            /\ ad[Plat(r)].authenticated

\* C15 as stated: every call that carries a schedule carries the request's
\* schedule_time string as it was given, and create_post never fails on the
\* value of schedule_time itself.  (Spec)
C15_ScheduleOpaque ==
    \A p \in Procs :
        LET r == rq[p]
        IN  IsPost(r) =>
              \A j \in 1..Len(r.log) :
                  /\ r.log[j].ev = "call" /\ r.log[j].data.schedule # NoSchedule =>
                        r.log[j].data.schedule = AsStr(r.sched)
                  /\ r.log[j].ev = "raised" => r.log[j].op # "bad_schedule"

\* a YouTube post whose first media URL is not a video
NonVideoYouTube(r) ==
    /\ IsPost(r) /\ Plat(r) = "youtube"
    /\ r.media # <<>> /\ ~IsVideo(r.media[1])

\* C16 as stated: a YouTube post whose first media URL is not a video ends
\* with a failed outcome, whatever the media host and the provider answer.
\* (Spec)
C16_Original ==
    \A p \in Procs :
        LET r == rq[p]
        IN  NonVideoYouTube(r) /\ r.pc = "done" => ~r.results[1].success

\* the statuses with which the YouTube call op goes on
YouTubeAccepts(op) == IF op = "download" THEN {200} ELSE {200, 201}

\* C16 as amended: YouTube create_post does not look at the kind of the
\* media URL.  With a first URL that is not a video it issues the download,
\* the upload initiation and the upload completion as for a video; it fails
\* exactly when authentication fails or one of the three is refused, and ends
\* with a successful outcome when the completion is accepted.  (Spec)
C16_YouTubeAnyMedia ==
    \A p \in Procs :
        LET r == rq[p]
            steps == <<"download", "initiate", "complete">>
            made == {j \in Calls(r) : r.log[j].op # "verify"}
        IN  NonVideoYouTube(r) =>
              /\ \A j \in made :
                    r.log[j].op = steps[Cardinality({n \in made : n <= j})]
              /\ \A j \in 1..Len(r.log) : r.log[j].ev = "raised" =>
                    r.log[j].op \in {"missing_credentials", "auth_rejected",
                                     "no_channel", "media_fetch", "provider"}
              /\ r.pc = "wait" /\ r.op # "verify" =>
                    \A resp \in Responses("youtube", r.op) :
                        LET n == After(p, resp)
                        IN  IF resp.status \notin YouTubeAccepts(r.op)
                            THEN n.pc = "done" /\ ~n.results[1].success
                            ELSE IF r.op = "complete"
                            THEN n.pc = "done" /\ n.results[1].success
                            ELSE n.pc = "wait"

\* a YouTube post whose first media URL is an image has ended with a
\* successful outcome
C16_Witness ==
    \E p \in Procs :
        LET r == rq[p]
        IN  /\ NonVideoYouTube(r) /\ r.pc = "done"
            /\ r.results[1].success

\* the sets of variables of which one must be set in full for a platform to
\* have its credentials
Sufficient(platform) ==
    CASE platform = "x" ->
           {{"X_BEARER_TOKEN"}, {"X_ACCESS_TOKEN", "X_ACCESS_TOKEN_SECRET"}}
      [] platform = "instagram" -> {{"INSTAGRAM_ACCESS_TOKEN", "INSTAGRAM_ACCOUNT_ID"}}
      [] platform = "threads" -> {{"THREADS_ACCESS_TOKEN", "THREADS_USER_ID"}}
      [] platform = "facebook" -> {{"FACEBOOK_ACCESS_TOKEN"}}
      [] platform = "tiktok" -> {{"TIKTOK_ACCESS_TOKEN"}}
      [] platform = "youtube" -> {{"YOUTUBE_ACCESS_TOKEN"}}
      [] OTHER -> {}

CredentialsPresent(platform) ==
    \E needed \in Sufficient(platform) : \A name \in needed : env[name] # ""

\* the place of a supported id in the fixed order
Position(platform) == CHOOSE n \in 1..Len(Supported) : Supported[n] = platform

\* C17: validate_credentials(p) is true exactly when, for x, the bearer token
\* or both the access token and its secret are set; for instagram and
\* threads, the access token and the account / user id; for facebook, tiktok
\* and youtube, the access token; it is false for any other id.
\* get_available_platforms returns the supported ids for which it is true,
\* each once, in the fixed order.  (SpecConfig)
C17_ValidateCredentials ==
    \A p \in Procs :
        LET r == rq[p]
        IN  /\ r.kind = "validate" =>
                  r.results = <<CredentialsPresent(r.platforms[1])>>
            /\ r.kind = "available" =>
                  /\ \A n \in 1..Len(r.results) : r.results[n] \in SupportedSet
                  /\ \A platform \in SupportedSet :
                        CredentialsPresent(platform) <=>
                          \E n \in 1..Len(r.results) : r.results[n] = platform
                  /\ \A i, j \in 1..Len(r.results) :
                        i < j => Position(r.results[i]) < Position(r.results[j])

\* x has been found to have credentials by its access token and secret,
\* no bearer token being set, and instagram not to have them for want of the
\* account id
C17_Witness ==
    \E p \in Procs :
        LET r == rq[p]
        IN  /\ r.kind = "available"
            /\ env["X_BEARER_TOKEN"] = "" /\ env["X_ACCESS_TOKEN"] # ""
            /\ env["INSTAGRAM_ACCESS_TOKEN"] # "" /\ env["INSTAGRAM_ACCOUNT_ID"] = ""
            /\ \E n \in 1..Len(r.results) : r.results[n] = "x"
            /\ \A n \in 1..Len(r.results) : r.results[n] # "instagram"

\* create_post of request r has got past authentication
Authenticated(r) ==
    \/ r.log[1].was
    \/ \E j \in 1..Len(r.log) : r.log[j].ev = "auth_end" /\ r.log[j].op = "ok"

\* the calls of request r for step op
CallsOf(r, op) == {j \in Calls(r) : r.log[j].op = op}

PublishAfterContainer(p) ==
    LET r == rq[p]
    IN  /\ \A j \in CallsOf(r, "publish") :
              /\ j > 1 /\ r.log[j - 1].ev = "call" /\ r.log[j - 1].op = "container"
              /\ r.log[j].data.creation_id = r.container_id
        /\ Cardinality(CallsOf(r, "publish")) <= 1
        /\ r.pc = "wait" /\ r.op = "container" =>
              \A resp \in Responses(Plat(r), r.op) :
                  LET n == After(p, resp)
                  IN  IF resp.status \in {200, 201}
                      THEN /\ Len(n.log) = Len(r.log) + 1
                           /\ n.log[Len(n.log)].ev = "call"
                           /\ n.log[Len(n.log)].op = "publish"
                           /\ n.log[Len(n.log)].data.creation_id = resp.id
                      ELSE Calls(n) = Calls(r) /\ ~n.results[1].success

\* C19: an Instagram post with no media URL fails, once the adapter is
\* authenticated or its authentication has failed, without creating a
\* container; with media URLs it creates exactly one container, from the
\* first URL only: a VIDEO with video_url when that URL, in lower case, ends
\* in .mp4, .mov or .avi, and otherwise an image with image_url and no media
\* type; the publish call is issued only after the creation was accepted and
\* carries the id it returned.  (Spec)
C19_InstagramContainer ==
    \A p \in Procs :
        LET r == rq[p]
        IN  IsPost(r) /\ Plat(r) = "instagram" =>
              /\ r.media = <<>> =>
                    /\ \A j \in Calls(r) : r.log[j].op = "verify"
                    /\ r.pc = "done" => ~r.results[1].success
                    /\ r.pc = "wait" =>
                          \A resp \in Responses(Plat(r), r.op) :
                              LET n == After(p, resp)
                              IN  n.pc = "done" /\ ~n.results[1].success
              /\ r.media # <<>> =>
                    /\ Cardinality(CallsOf(r, "container"))
                         = IF Authenticated(r) THEN 1 ELSE 0
                    /\ \A j \in CallsOf(r, "container") :
                          LET data == r.log[j].data
                              video == Lower(r.media[1]) \in {"v.mp4", "v.mov", "v.avi"}
                          IN  IF video
                              THEN /\ data.media_type = "VIDEO"
                                   /\ data.video_url = r.media[1]
                                   /\ data.image_url = ""
                              ELSE /\ data.media_type = ""
                                   /\ data.image_url = r.media[1]
                                   /\ data.video_url = ""
              /\ PublishAfterContainer(p)

\* an Instagram post of two URLs, the first a video by its upper-case
\* suffix, has been published with the id of its container
C19_Witness ==
    \E p \in Procs :
        LET r == rq[p]
        IN  /\ IsPost(r) /\ Plat(r) = "instagram"
            /\ r.media = <<"V.MOV", "a.jpg">>
            /\ r.pc = "done" /\ r.results[1].success
            /\ \E j \in CallsOf(r, "publish") : r.log[j].data.creation_id = "c2"

\* C20: a Threads post that got past authentication creates exactly one
\* container: TEXT when there is no media URL, VIDEO with video_url when the
\* first URL, in lower case, ends in .mp4, .mov or .avi, IMAGE with image_url
\* otherwise; the URLs after the first appear in no call; the publish call is
\* issued only after the creation was accepted and carries the id it
\* returned.  (Spec)
C20_ThreadsContainer ==
    \A p \in Procs :
        LET r == rq[p]
        IN  IsPost(r) /\ Plat(r) = "threads" =>
              /\ Cardinality(CallsOf(r, "container"))
                   = IF Authenticated(r) THEN 1 ELSE 0
              /\ \A j \in CallsOf(r, "container") :
                    LET data == r.log[j].data
                    IN  /\ data.media_type =
                              IF r.media = <<>> THEN "TEXT"
                              ELSE IF Lower(r.media[1]) \in {"v.mp4", "v.mov", "v.avi"}
                              THEN "VIDEO" ELSE "IMAGE"
                        /\ data.video_url =
                              IF data.media_type = "VIDEO" THEN r.media[1] ELSE ""
                        /\ data.image_url =
                              IF data.media_type = "IMAGE" THEN r.media[1] ELSE ""
              /\ \A j \in Calls(r) : \A n \in 2..Len(r.media) :
                    LET data == r.log[j].data
                    IN  /\ r.media[n] \notin {data.video_url, data.image_url, data.link}
                        /\ data.attached_media = <<>>
              /\ \A j \in Calls(r) : r.log[j].op \in {"verify", "container", "publish"}
              /\ PublishAfterContainer(p)

\* a Threads post without media has been published as TEXT
C20_Witness ==
    \E p \in Procs :
        LET r == rq[p]
        IN  /\ IsPost(r) /\ Plat(r) = "threads" /\ r.media = <<>>
            /\ r.pc = "done" /\ r.results[1].success
            /\ \E j \in CallsOf(r, "container") : r.log[j].data.media_type = "TEXT"
            /\ \E j \in CallsOf(r, "publish") : r.log[j].data.creation_id = "c1"

\* the calls of request r that belong to the publish sequence, in the order
\* of their issue
Sequence(r) == SelectSeq(r.log, LAMBDA e : e.ev = "call" /\ e.op # "verify")

\* the TikTok post r has issued a prefix of init, download of the first URL,
\* PUT to the upload URL of the initialization, publish with its publish id
TikTokOrdered(r) ==
    LET steps == <<"init", "download", "put", "publish">>
        calls == Sequence(r)
    IN  /\ Len(calls) <= Len(steps)
        /\ \A n \in 1..Len(calls) :
              /\ calls[n].op = steps[n]
              /\ calls[n].op = "download" => calls[n].data.url = r.media[1]
              /\ calls[n].op = "put" =>
                    calls[n].data.url = r.upload_data.upload_url
              /\ calls[n].op = "publish" =>
                    calls[n].data.publish_id = r.upload_data.publish_id

\* C21: a TikTok post with no media URL issues no call of the upload sequence
\* and fails; with media URLs it issues, in this order, init, the download of
\* the first URL, the PUT to the upload URL that init returned and publish
\* with the publish id that init returned; and a non-success answer to init,
\* to the download or to the PUT is followed by no publish call.  (Spec)
C21_TikTokSequence ==
    \A p \in Procs :
        LET r == rq[p]
        IN  IsPost(r) /\ Plat(r) = "tiktok" =>
              /\ r.media = <<>> =>
                    /\ Sequence(r) = <<>>
                    /\ r.pc = "done" => ~r.results[1].success
              /\ r.media # <<>> => TikTokOrdered(r)
              /\ r.pc = "wait" /\ r.op = "init" =>
                    \A resp \in Responses("tiktok", "init") :
                        resp.status \in {200, 201} =>
                          After(p, resp).upload_data = UploadData(resp)
              /\ r.pc = "wait" /\ r.op \in {"init", "download", "put"} =>
                    \A resp \in Responses("tiktok", r.op) :
                        resp.status \notin SuccessCodes =>
                          CallsOf(After(p, resp), "publish") = {}

\* the number of media URLs that an X post of this media list processes
Processed(media) == Min(XMaxMedia, Len(media))

\* the statuses with which the X upload call op goes on
XAccepts(op) ==
    CASE op = "download" -> {200}
      [] op = "INIT" -> {200, 201, 202}
      [] op = "APPEND" -> {200, 201, 204}
      [] OTHER -> {200, 201}

\* C22: an X post issues, for the first 4 of its media URLs and one URL after
\* the other, download, INIT, APPEND and FINALIZE in this order, APPEND and
\* FINALIZE carrying the media id that INIT returned; a fifth or later URL
\* appears in no call; the tweet call is issued once, after the FINALIZE of
\* the last processed URL was accepted, and lists the media ids in the order
\* of their URLs; an upload call that is not accepted ends the post with a
\* failure and no tweet call.  (Spec)
C22_XMedia ==
    \A p \in Procs :
        LET r == rq[p]
            steps == <<"download", "INIT", "APPEND", "FINALIZE">>
            calls == Sequence(r)
            last == 4 * Processed(r.media)
            Item(n) == ((n - 1) \div 4) + 1
        IN  IsPost(r) /\ Plat(r) = "x" =>
              /\ Len(calls) <= last + 1
              /\ \A n \in 1..Len(calls) :
                    IF n <= last
                    THEN /\ calls[n].op = steps[((n - 1) % 4) + 1]
                         /\ calls[n].k = Item(n)
                         /\ calls[n].op = "download" =>
                               calls[n].data.url = r.media[Item(n)]
                         /\ calls[n].op = "FINALIZE" =>
                               calls[n].data.media_id = calls[n - 1].data.media_id
                    ELSE /\ calls[n].op = "tweet"
                         /\ Len(calls[n].data.media_ids) = Processed(r.media)
                         /\ \A k \in 1..Processed(r.media) :
                               calls[n].data.media_ids[k] = calls[4 * k].data.media_id
              /\ \A n \in 1..Len(calls) : \A k \in (XMaxMedia + 1)..Len(r.media) :
                    calls[n].k # k /\ calls[n].data.url # r.media[k]
              /\ r.pc = "wait" /\ r.op \in {"download", "INIT", "APPEND", "FINALIZE"} =>
                    \A resp \in Responses("x", r.op) :
                        LET n == After(p, resp)
                            next == n.log[Len(n.log)]
                        IN  IF resp.status \notin XAccepts(r.op)
                            THEN /\ n.pc = "done" /\ ~n.results[1].success
                                 /\ Calls(n) = Calls(r)
                            ELSE /\ n.pc = "wait" /\ Len(n.log) = Len(r.log) + 1
                                 /\ r.op = "INIT" =>
                                       next.op = "APPEND" /\ next.data.media_id = resp.id
                                 /\ r.op = "FINALIZE" /\ r.k = Processed(r.media) =>
                                       next.op = "tweet"

\* an X post of five media URLs has been tweeted with four media ids, the
\* first differing from the second
C22_Witness ==
    \E p \in Procs :
        LET r == rq[p]
        IN  /\ IsPost(r) /\ Plat(r) = "x" /\ Len(r.media) = 5
            /\ r.pc = "done" /\ r.results[1].success
            /\ \E j \in CallsOf(r, "tweet") :
                  /\ Len(r.log[j].data.media_ids) = 4
                  /\ r.log[j].data.media_ids[1] = "c2"
                  /\ r.log[j].data.media_ids[2] = "c1"

\* the length of the first line of text: of its longest prefix without newline
FirstLine(text) ==
    CHOOSE n \in 0..Len(text) :
        /\ \A i \in 1..n : text[i] # NewLine
        /\ n = Len(text) \/ text[n + 1] = NewLine

Unscheduling == {"instagram", "threads", "x"}

\* request r as it would be without schedule_time
Unscheduled(r) == [r EXCEPT !.sched = ""]

\* the call carries none of the scheduling fields
Plain(data) ==
    /\ data.schedule = NoSchedule /\ data.published = ""
    /\ data.post_mode = "" /\ data.privacy \in {"", "public"}

\* C24: the Facebook feed call carries published=false and
\* scheduled_publish_time exactly when schedule_time is given; the TikTok
\* publish call is issued with or without schedule_time and carries
\* post_mode=SCHEDULED and schedule_time exactly when it is given; the YouTube
\* initiation carries privacy private and publishAt exactly when it is given
\* and privacy public otherwise; no other call carries any of these fields;
\* and every step of an Instagram, Threads or X post is the step it would be
\* without schedule_time.  (Spec)
C24_ScheduleEffect ==
    \A p \in Procs :
        LET r == rq[p]
            given == r.sched # ""
        IN  IsPost(r) =>
              /\ \A j \in Calls(r) :
                    LET e == r.log[j]
                    IN  CASE e.plat = "facebook" /\ e.op = "feed" ->
                               /\ e.data.published = "false" <=> given
                               /\ e.data.schedule # NoSchedule <=> given
                          [] e.plat = "tiktok" /\ e.op = "publish" ->
                               /\ e.data.post_mode = "SCHEDULED" <=> given
                               /\ e.data.schedule # NoSchedule <=> given
                          [] e.plat = "youtube" /\ e.op = "initiate" ->
                               /\ e.data.privacy = IF given THEN "private" ELSE "public"
                               /\ e.data.schedule # NoSchedule <=> given
                          [] OTHER -> Plain(e.data)
              /\ Plat(r) = "tiktok" /\ r.pc = "wait" /\ r.op = "put" =>
                    \A resp \in Responses("tiktok", "put") :
                        resp.status \in {200, 201, 204} =>
                          CallsOf(After(p, resp), "publish") # {}
              /\ Plat(r) \in Unscheduling /\ r.pc = "wait" =>
                    \A resp \in Responses(Plat(r), r.op) :
                        Unscheduled(After(p, resp))
                          = Resume([Machine(p) EXCEPT !.r = Unscheduled(r)], resp).r

\* the calls of a publish sequence that carry the adapter's access token
TokenSteps == {"feed", "container", "publish", "init", "initiate"}

\* the tokens that a completed verification on the adapter of plat has
\* accepted, as the requests' histories record them
AcceptedTokens(plat) ==
    UNION {{rq[q].log[j - 1].cred :
               j \in {n \in 2..Len(rq[q].log) :
                        /\ rq[q].log[n].ev = "auth_end" /\ rq[q].log[n].op = "ok"
                        /\ rq[q].log[n].plat = plat}} :
           q \in Procs}

\* C25: whatever the interleaving of the requests on an adapter, every call
\* of a publish sequence that carries the access token carries a token that a
\* completed verification on that adapter has accepted, and is issued while
\* the adapter's authenticated flag is true.  (SpecShared)
C25_VerifiedToken ==
    \A p \in Procs : \A j \in Calls(rq[p]) :
        LET e == rq[p].log[j]
        IN  e.op \in TokenSteps =>
              /\ e.cred \in AcceptedTokens(e.plat)
              /\ e.now

\* C26: from its assignments on, that is while its verification is awaited
\* and after it has failed, an authenticate call leaves in the adapter the
\* explicit token if one was given and else the environment's, whatever token
\* the adapter held before, and the page / account / user id that
\* additional_params supplied; after it has failed the authenticated flag is
\* false.  (Spec)
C26_FailedAuthKeeps ==
    \A p \in Procs : \A j \in 1..Len(rq[p].log) :
        LET r == rq[p]
            e == r.log[j]
            a == ad[e.plat]
            failed == \E n \in (j + 1)..Len(r.log) :
                          r.log[n].ev = "auth_end" /\ r.log[n].op # "ok"
        IN  (/\ e.ev = "authenticate"
             /\ failed \/ (r.pc = "wait" /\ r.op = "verify")) =>
              /\ a.access_token = Or(e.arg, getenv(env, TokenVar(e.plat)))
              /\ e.plat \in HasAccount /\ r.args.id # Absent => a.account = r.args.id
              /\ failed => ~a.authenticated

\* an authenticate call with a token and an id, on an adapter authenticated
\* with the configured token, has failed: the adapter holds the token and the
\* id of the call
C26_Witness ==
    \E p \in Procs : \E j \in 1..Len(rq[p].log) :
        LET r == rq[p]
            e == r.log[j]
        IN  /\ r.kind = "auth" /\ r.pc = "done" /\ r.status = HTTP_UNAUTHORIZED
            /\ e.ev = "authenticate" /\ e.was
            /\ e.prev = "env_tok" /\ e.arg = "arg_tok" /\ r.args.id = "arg_id"
            /\ ad[e.plat].access_token = "arg_tok"
            /\ ad[e.plat].account = "arg_id"
            /\ ~ad[e.plat].authenticated

\* the number of places of the sequence q that hold x
Occurrences(q, x) == Cardinality({n \in 1..Len(q) : q[n] = x})

\* C27: when a POST /api/post batch is answered, create_post has been entered
\* on the adapter of every supported platform as many times as the platform
\* id occurs in platforms, and the response holds as many outcomes for an id
\* as the id occurs in platforms; while the handler runs neither number
\* exceeds the occurrences.  (SpecBatch)
C27_Duplicates ==
    \A p \in Procs :
        LET r == rq[p]
            entered(platform) ==
                Cardinality({j \in 1..Len(r.log) :
                    r.log[j].ev = "create_post" /\ r.log[j].plat = platform})
            outcomes(platform) ==
                Cardinality({n \in 1..Len(r.results) : r.results[n].platform = platform})
        IN  IsBatch(r) =>
              \A platform \in PlatformIds :
                  LET k == Occurrences(r.platforms, platform)
                  IN  /\ entered(platform) <= k /\ outcomes(platform) <= k
                      /\ platform \notin SupportedSet => entered(platform) = 0
                      /\ r.pc = "done" =>
                            /\ outcomes(platform) = k
                            /\ platform \in SupportedSet => entered(platform) = k

\* a batch listing one supported platform twice has been answered with two
\* outcomes for it, create_post having been entered twice on its adapter, the
\* second time on the adapter as the first had left it
C27_Witness ==
    \E p \in Procs :
        LET r == rq[p]
        IN  /\ IsBatch(r) /\ r.pc = "done" /\ Len(r.platforms) = 2
            /\ r.platforms[1] = r.platforms[2]
            /\ r.platforms[1] \in SupportedSet
            /\ Cardinality(AtOf(r, 1, "create_post")) = 1
            /\ \E j \in AtOf(r, 2, "create_post") : r.log[j].was
            /\ Len(r.results) = 2 /\ r.results[2].success

\* supports_scheduling of the catalog entry of platform
SupportsScheduling(platform) ==
    \E n \in 1..Len(Catalog) :
        Catalog[n].id = platform /\ Catalog[n].supports_scheduling

\* C28: GET /api/platforms answers with the catalog, and for a post with a
\* schedule_time that its adapter has carried out to the end, some call to the
\* provider carries a scheduling field exactly when the catalog reports
\* supports_scheduling for the platform.  (Spec)
C28_CatalogAgrees ==
    \A p \in Procs :
        LET r == rq[p]
        IN  /\ r.kind = "read" /\ r.detail = "/api/platforms" => r.results = Catalog
            /\ (/\ IsPost(r) /\ r.sched # ""
                /\ r.pc = "done" /\ r.results[1].success) =>
                  (SupportsScheduling(Plat(r)) <=>
                     \E j \in Calls(r) : ~Plain(r.log[j].data))

\* the adapters that require a media URL
MediaRequired == {"instagram", "tiktok", "youtube"}

\* a post without media URL to an adapter that requires one
NoMediaPost(r) == IsPost(r) /\ Plat(r) \in MediaRequired /\ r.media = <<>>

\* C29 as stated: a post without media URL to Instagram, TikTok or YouTube
\* that was entered on an unauthenticated adapter has issued the verification
\* call by the time it is rejected; entered on an authenticated adapter it is
\* rejected without any call.  (Spec)
C29_Original ==
    \A p \in Procs :
        LET r == rq[p]
        IN  NoMediaPost(r) /\ r.pc = "done" =>
              /\ ~r.results[1].success
              /\ IF r.log[1].was THEN Calls(r) = {}
                 ELSE CallsOf(r, "verify") # {}

\* C29 as amended: such a post entered on an unauthenticated adapter first
\* runs authenticate, which stores the configured token and issues the
\* verification call exactly when the credentials it requires are present;
\* the media URL is missed only after authenticate has succeeded, the adapter
\* then staying authenticated, and otherwise the post fails with the error of
\* authenticate; no other call is issued.  Entered on an authenticated
\* adapter the post is rejected at once for the missing media URL, without
\* any call.  (Spec)
C29_MediaCheckAfterAuth ==
    \A p \in Procs :
        LET r == rq[p]
            a == ad[Plat(r)]
            last == r.log[Len(r.log)]
        IN  NoMediaPost(r) =>
              /\ \A j \in Calls(r) : r.log[j].op = "verify"
              /\ r.pc = "done" =>
                    /\ ~r.results[1].success /\ last.ev = "raised"
                    /\ last.op = "no_media" <=> Authenticated(r)
                    /\ last.op = "no_media" => a.authenticated
              /\ r.log[1].was => r.pc = "done" /\ Len(r.log) = 2
              /\ ~r.log[1].was =>
                    /\ r.log[2].ev = "authenticate"
                    /\ a.access_token = getenv(env, TokenVar(Plat(r)))
                    /\ r.log[3].ev = "call" <=> ~MissingCredentials(a, Plat(r))
                    /\ r.log[3].ev # "call" =>
                          r.log[3].ev = "auth_end" /\ r.log[3].op = "missing_credentials"

\* a post without media URL, entered on an unauthenticated adapter that held
\* the token of an explicit authenticate, has been rejected for the missing
\* URL after its verification call: the adapter is authenticated and holds
\* the configured token
C29_Witness ==
    \E p \in Procs :
        LET r == rq[p]
        IN  /\ NoMediaPost(r) /\ r.pc = "done" /\ ~r.log[1].was
            /\ r.log[2].prev = "arg_tok"
            /\ CallsOf(r, "verify") # {}
            /\ r.log[Len(r.log)].op = "no_media"
            /\ ad[Plat(r)].authenticated
            /\ ad[Plat(r)].access_token = "env_tok"

\* the most calls that one create_post on the adapter of plat issues for a
\* media list: the verification and its publish sequence
CallBound(plat, media) ==
    1 + CASE plat = "facebook" -> 1
          [] plat \in {"instagram", "threads"} -> 2
          [] plat = "tiktok" -> 4
          [] plat = "x" -> 4 * Min(XMaxMedia, Len(media)) + 1
          [] plat = "youtube" -> 3
          [] OTHER -> 0

\* C30: every awaited call being answered in the end, every POST /api/post
\* request is answered in the end; when it is, every entry of platforms has
\* its outcome and no create_post is under way; and the calls made for an
\* entry are at most the verification and the adapter's publish sequence,
\* 4 per processed media URL at most, so that the calls of the request are at
\* most Len(platforms) * (3 + 4 * Len(media)); a request that waits for a
\* response can be answered.  (SpecBatchFair)
C30_BatchReturns ==
    /\ [](\A p \in Procs :
            LET r == rq[p]
            IN  r.kind = "batch" =>
                  /\ r.pc = "done" /\ IsBatch(r) =>
                        /\ Len(r.results) = Len(r.platforms)
                        /\ \A n \in 1..Len(r.platforms) :
                              r.platforms[n] \in SupportedSet =>
                                Cardinality(AtOf(r, n, "returned"))
                                  + Cardinality(AtOf(r, n, "raised")) = 1
                  /\ \A n \in 1..Len(r.platforms) :
                        Cardinality(AtOf(r, n, "call"))
                          <= CallBound(r.platforms[n], r.media)
                  /\ Cardinality(Calls(r))
                       <= Len(r.platforms) * (3 + 4 * Len(r.media))
                  /\ r.pc = "wait" =>
                        \E resp \in Responses(Plat(r), r.op) :
                            After(p, resp) # r)
    /\ \A p \in Procs : (rq[p].kind = "batch") ~> (rq[p].pc = "done")

\* a batch of two supported platforms has been answered after ten calls or
\* more, both posts having succeeded
C30_Witness ==
    \E p \in Procs :
        LET r == rq[p]
        IN  /\ IsBatch(r) /\ r.pc = "done" /\ Len(r.platforms) = 2
            /\ r.results[1].success /\ r.results[2].success
            /\ Cardinality(Calls(r)) >= 10

====
